---------------------------- MODULE Spec2Model ----------------------------
(***************************************************************************)
(* A model of tlparser's external-analyzer protocol (spot_tools.py,        *)
(* stats_ext.py) and of the Stats facade (stats.py).                       *)
(*                                                                         *)
(* Python values are modelled as follows.  A str is a sequence of          *)
(* one-character strings when the code looks inside it (formulas), and a   *)
(* sequence of words when the code only builds it (messages, error texts). *)
(* The scalars True, False, None, "Error" and the integers that fill the   *)
(* fields of a classification are the strings "True", "False", "None",     *)
(* "Error" and the decimal numeral.  A dict is a function whose DOMAIN is  *)
(* its key set.                                                            *)
(***************************************************************************)
EXTENDS Integers, Sequences, FiniteSets, TLC

\* ------------------------------------------------------------------ bounds
\* classify / Stats() calls made on one analyzer instance in one behaviour
MaxCalls == 2
\* tool invocations of one behaviour whose outcome is not the nominal one
MaxFaults == 1
\* tokens of a formula handed to the normalizer alone
MaxTokens == 3
\* children of an And or Or node handed to the walker alone
MaxChildren == 4

\* ----------------------------------------------------------------- strings
Range(s) == {s[i] : i \in 1..Len(s)}

UpperLetters ==
    <<"A","B","C","D","E","F","G","H","I","J","K","L","M",
      "N","O","P","Q","R","S","T","U","V","W","X","Y","Z">>

LowerLetters ==
    <<"a","b","c","d","e","f","g","h","i","j","k","l","m",
      "n","o","p","q","r","s","t","u","v","w","x","y","z">>

Digits == {"0","1","2","3","4","5","6","7","8","9"}

\* \w of the re module
IsWordChar(c) ==
    c \in Range(UpperLetters) \cup Range(LowerLetters) \cup Digits \cup {"_"}

\* \s of the re module (the formulas of the model hold blanks and tabs)
IsSpace(c) == c \in {" ", "\t"}

\* re.IGNORECASE
ToLower(c) ==
    IF c \in Range(UpperLetters)
    THEN LowerLetters[CHOOSE i \in 1..Len(UpperLetters) : UpperLetters[i] = c]
    ELSE c

\* s[i:i+n] of Python, 1-based
Slice(s, i, n) ==
    IF i + n - 1 > Len(s) THEN <<>> ELSE [k \in 1..n |-> s[i + k - 1]]

LowerSlice(s, i, n) ==
    IF i + n - 1 > Len(s) THEN <<>> ELSE [k \in 1..n |-> ToLower(s[i + k - 1])]

\* \b between s[i-1] and s[i]
WordBoundary(s, i) ==
    LET before == i > 1 /\ i - 1 <= Len(s) /\ IsWordChar(s[i - 1])
        after  == i >= 1 /\ i <= Len(s) /\ IsWordChar(s[i])
    IN  before # after

\* first index >= i that holds no white space
RECURSIVE SkipSpaces(_, _)
SkipSpaces(s, i) ==
    IF i <= Len(s) /\ IsSpace(s[i]) THEN SkipSpaces(s, i + 1) ELSE i

\* ------------------------------------------------- SpotAnalyzer._to_spot_syntax
\* pattern.sub(replacement, s) for a literal pattern
RECURSIVE SubLiteral(_, _, _, _)
SubLiteral(s, pat, rep, i) ==
    IF i > Len(s) THEN <<>>
    ELSE IF LowerSlice(s, i, Len(pat)) = pat
         THEN rep \o SubLiteral(s, pat, rep, i + Len(pat))
         ELSE <<s[i]>> \o SubLiteral(s, pat, rep, i + 1)

\* mutation of SubWord: the word is replaced wherever its letters occur
RECURSIVE SubWord_Substring(_, _, _, _)
SubWord_Substring(s, word, rep, i) ==
    IF i > Len(s) THEN <<>>
    ELSE IF LowerSlice(s, i, Len(word)) = word
         THEN rep \o SubWord_Substring(s, word, rep, i + Len(word))
         ELSE <<s[i]>> \o SubWord_Substring(s, word, rep, i + 1)

\* re.compile(r"\bword\b", re.IGNORECASE).sub(rep, s)
RECURSIVE SubWord(_, _, _, _)
SubWord(s, word, rep, i) ==
    IF i > Len(s) THEN <<>>
    ELSE IF /\ LowerSlice(s, i, Len(word)) = word
            /\ WordBoundary(s, i)
            /\ WordBoundary(s, i + Len(word))
         THEN rep \o SubWord(s, word, rep, i + Len(word))
         ELSE <<s[i]>> \o SubWord(s, word, rep, i + 1)

\* re.sub(r"!\s+", "!", s)
RECURSIVE CollapseNegation(_, _)
CollapseNegation(s, i) ==
    IF i > Len(s) THEN <<>>
    ELSE IF s[i] = "!" /\ i + 1 <= Len(s) /\ IsSpace(s[i + 1])
         THEN <<"!">> \o CollapseNegation(s, SkipSpaces(s, i + 1))
         ELSE <<s[i]>> \o CollapseNegation(s, i + 1)

\* the operator (&, | or ->) that starts at s[i], or <<>>
BinaryOpAt(s, i) ==
    IF i <= Len(s) /\ s[i] \in {"&", "|"} THEN <<s[i]>>
    ELSE IF Slice(s, i, 2) = <<"-", ">">> THEN <<"-", ">">>
    ELSE <<>>

\* re.sub(r"\s*(&|\||->)\s*", r" \1 ", s)
RECURSIVE PadBinary(_, _)
PadBinary(s, i) ==
    IF i > Len(s) THEN <<>>
    ELSE LET j  == SkipSpaces(s, i)
             op == BinaryOpAt(s, j)
         IN  IF op # <<>>
             THEN <<" ">> \o op \o <<" ">>
                    \o PadBinary(s, SkipSpaces(s, j + Len(op)))
             ELSE <<s[i]>> \o PadBinary(s, i + 1)

\* re.sub(r"\s+", " ", s)
RECURSIVE CollapseSpaces(_, _)
CollapseSpaces(s, i) ==
    IF i > Len(s) THEN <<>>
    ELSE IF IsSpace(s[i])
         THEN <<" ">> \o CollapseSpaces(s, SkipSpaces(s, i))
         ELSE <<s[i]>> \o CollapseSpaces(s, i + 1)

\* str.strip()
RECURSIVE Strip(_)
Strip(s) ==
    IF s = <<>> THEN s
    ELSE IF IsSpace(s[1]) THEN Strip(Tail(s))
    ELSE IF IsSpace(s[Len(s)]) THEN Strip(SubSeq(s, 1, Len(s) - 1))
    ELSE s

to_spot_syntax(formula) ==
    LET t1 == SubLiteral(formula, <<"-", "-", ">">>, <<"-", ">">>, 1)
        t2 == SubWord(t1, <<"n", "o", "t">>, <<"!">>, 1)
        t3 == SubWord(t2, <<"a", "n", "d">>, <<"&">>, 1)
        t4 == SubWord(t3, <<"o", "r">>, <<"|">>, 1)
        t5 == CollapseNegation(t4, 1)
        t6 == PadBinary(t5, 1)
    IN  Strip(CollapseSpaces(t6, 1))


\* ------------------------------------------------------- the external tools
\* REQUIRED_SPOT_TOOLS, in sorted order
REQUIRED_SPOT_TOOLS == <<"autfilt", "ltl2tgba", "ltlfilt">>

Variants == {"tgba", "buchi", "det"}

\* what one subprocess can do: Popen fails to find the executable, Popen fails
\* otherwise (a PermissionError, say), or the process exits with a status,
\* an output and a diagnostic text
ExitStatuses == {0, 1, 2}

Stderrs == {<<>>, <<"stderr-text">>}

\* stdout of ltlfilt <flag> and autfilt <flag>: the formula or automaton
\* echoed on a match, nothing otherwise
MatchOutputs == {<<>>, <<"echo">>}

\* stdout of ltlfilt --format=%[vw]h
ClassOutputs == {<<>>, <<"safety">>, <<"%[vw]h">>}

\* stdout of ltl2tgba: the automaton in HOA
HoaOutputs == {<<>>, <<"HOA:">>}

\* stdout of ltl2tgba --stats="%s %t %p %d %a", split into words
StatsOutputs ==
    {<<>>, <<"2", "4", "1", "0", "1">>, <<"2", "4">>, <<"2", "x", "1", "0", "1">>}

\* stdout of autfilt --stats=<letter>
StatOutputs == {<<>>, <<"2">>, <<"x">>}

Outcomes(outputs) ==
    {[kind |-> "notfound", rc |-> 0, out |-> <<>>, err |-> <<>>],
     [kind |-> "oserror", rc |-> 0, out |-> <<>>, err |-> <<>>]}
    \cup [kind : {"exit"}, rc : ExitStatuses, out : outputs, err : Stderrs]

\* the outcome of a tool that works: status 0, the expected output, no
\* diagnostic
NominalOutputs ==
    {<<"echo">>, <<"safety">>, <<"HOA:">>, <<"2", "4", "1", "0", "1">>, <<"2">>}

Nominal(outputs) ==
    [kind |-> "exit", rc |-> 0,
     out |-> CHOOSE w \in outputs : w \in NominalOutputs,
     err |-> <<>>]

NumeralOf(n) == <<"0", "1", "2", "3", "4", "5", "6", "7", "8", "9">>[n + 1]

\* ["ltlfilt", "-f", ltl_formula, flag] and ["ltl2tgba", "-f", ltl_formula, ...]
FormulaCmd(tool, ltl_formula, flags) == <<tool, "-f">> \o ltl_formula \o flags

AutfiltCmd(flag) == <<"autfilt", flag>>

VariantFlags(v) ==
    CASE v = "tgba"  -> <<>>
      [] v = "buchi" -> <<"-B">>
      [] v = "det"   -> <<"-D">>

\* "--format=" in cmd_str (no formula of the model spells an option)
HasFormatOption(command) ==
    \E i \in 1..Len(command) : command[i] \in {"--format=%[vw]h"}

\* str(subprocess.CalledProcessError(returncode, cmd, output, stderr))
StrCalledProcessError(e) ==
    <<"Command">> \o e.cmd \o <<"returned non-zero exit status", NumeralOf(e.returncode)>>

\* what invoke gives back: a return value or a raised exception
Returned(value) ==
    [type |-> "return", value |-> value, returncode |-> 0,
     cmd |-> <<>>, stderr |-> <<>>]

Raised(type, returncode, cmd, output, stderr) ==
    [type |-> type, value |-> output, returncode |-> returncode,
     cmd |-> cmd, stderr |-> stderr]

\* mutation of invoke: any failing filter that wrote nothing is a no-match
invoke_AnyStatus(command, o) ==
    IF o.kind = "notfound"
    THEN Raised("FileNotFoundError", 0, command, <<>>, <<>>)
    ELSE IF o.kind = "oserror"
    THEN Raised("OSError", 0, command, <<>>, <<>>)
    ELSE IF o.rc # 0
    THEN LET is_filter_no_match ==
                 \/ command[1] = "ltlfilt" /\ ~HasFormatOption(command)
                 \/ command[1] = "autfilt"
         IN  IF is_filter_no_match /\ o.err = <<>> /\ o.out = <<>>
             THEN Returned(<<>>)
             ELSE Raised("CalledProcessError", o.rc, command, o.out, o.err)
    ELSE Returned(o.out)

invoke(command, o) ==
    IF o.kind = "notfound"
    THEN Raised("FileNotFoundError", 0, command, <<>>, <<>>)
    ELSE IF o.kind = "oserror"
    THEN Raised("OSError", 0, command, <<>>, <<>>)
    ELSE IF o.rc # 0
    THEN LET is_filter_no_match ==
                 \/ /\ command[1] = "ltlfilt"
                    /\ o.rc = 1
                    /\ ~HasFormatOption(command)
                 \/ command[1] = "autfilt" /\ o.rc = 1
         IN  IF is_filter_no_match /\ o.err = <<>> /\ o.out = <<>>
             THEN Returned(<<>>)
             ELSE Raised("CalledProcessError", o.rc, command, o.out, o.err)
    ELSE Returned(o.out)

\* int(text) succeeds
IsIntLiteral(word) == word \in Digits

\* ------------------------------------------------ check_ltl_property_type
CheckFlag(check_type) ==
    CASE check_type = "syntactic_safety"  -> "--syntactic-safety"
      [] check_type = "stutter_invariant" -> "--stutter-invariant"

check_ltl_property_type(ltl_formula, check_type, o) ==
    LET r == invoke(FormulaCmd("ltlfilt", ltl_formula, <<CheckFlag(check_type)>>), o)
    IN  IF r.type = "return"
        THEN (IF Len(r.value) > 0 THEN "True" ELSE "False")
        ELSE "Error"

\* ------------------------------------------------- get_manna_pnueli_class
FormatIssue == <<"Unclassified/Error (Format Issue)">>

get_manna_pnueli_class(ltl_formula, o) ==
    LET r == invoke(FormulaCmd("ltlfilt", ltl_formula, <<"--format=%[vw]h">>), o)
    IN  IF r.type = "return"
        THEN (IF r.value = <<>> \/ r.value[1] \in {"%[vw]h"}
              THEN FormatIssue
              ELSE r.value)
        ELSE <<"Error">>

\* ------------------------------------------------ get_automaton_and_stats
\* the stats_dict built from the five words of the statistics line; int() of
\* a word that is no numeral raises ValueError and leaves the keys set so far
StatsDictOf(parts) ==
    LET e == [error |-> <<"Failed to get direct stats from ltl2tgba:",
                           "invalid literal for int()">>]
        d1 == [state_count |-> parts[1]]
        d2 == d1 @@ [transition_count |-> parts[2]]
        d4 == d2 @@ [is_complete |-> IF parts[3] = "1" THEN "True" ELSE "False",
                     is_deterministic |-> IF parts[4] = "1" THEN "True" ELSE "False"]
        d5 == d4 @@ [acceptance_sets |-> parts[5]]
    IN  IF ~IsIntLiteral(parts[1]) THEN e
        ELSE IF ~IsIntLiteral(parts[2]) THEN d1 @@ e
        ELSE IF ~IsIntLiteral(parts[5]) THEN d4 @@ e
        ELSE d5 @@ [analysis_source |-> "ltl2tgba_stats"]

\* the stats_dict after the second invocation of ltl2tgba (r is what invoke
\* gave; FileNotFoundError and OSError are not handled here)
StatsDictAfter(r) ==
    IF r.type = "CalledProcessError"
    THEN [error |-> <<"Failed to get direct stats from ltl2tgba:">>
                      \o StrCalledProcessError(r)]
    ELSE IF Len(r.value) = 5
    THEN StatsDictOf(r.value)
    ELSE [error |-> <<"Unexpected stats output format from ltl2tgba.">>]

\* --------------------------------------------- analyze_automaton_fallback
EmptyHoaResults ==
    [is_deterministic |-> "Error", is_complete |-> "Error",
     state_count |-> "Error", transition_count |-> "Error",
     acceptance_sets |-> "Error", is_stutter_invariant |-> "Error",
     analysis_error |-> "Empty or malformed HOA input for autfilt fallback"]

\* the six autfilt invocations, in the order the code makes them
FallbackKeys ==
    <<"is_deterministic", "is_complete", "is_stutter_invariant",
      "state_count", "transition_count", "acceptance_sets">>

FallbackFlags ==
    <<"--is-deterministic", "--is-complete", "--is-stutter-invariant",
      "--stats=s", "--stats=t", "--stats=c">>

FallbackSteps == Len(FallbackKeys)

\* the first three are check_property_by_output, the last three get_stat_int
IsPropertyStep(k) == k <= 3

FallbackOutputs(k) == IF IsPropertyStep(k) THEN MatchOutputs ELSE StatOutputs

check_property_by_output(prop_flag, o) ==
    LET r == invoke(AutfiltCmd(prop_flag), o)
    IN  IF r.type = "return"
        THEN (IF r.value # <<>> THEN "True" ELSE "False")
        ELSE "Error"

get_stat_int(stat_flag, o) ==
    LET r == invoke(AutfiltCmd(stat_flag), o)
    IN  IF r.type = "return" /\ Len(r.value) = 1 /\ IsIntLiteral(r.value[1])
        THEN r.value[1]
        ELSE "Error"

\* Popen errors other than FileNotFoundError leave analyze_automaton_fallback
FallbackRaises(k, o) == invoke(AutfiltCmd(FallbackFlags[k]), o).type = "OSError"

FallbackValue(k, o) ==
    IF IsPropertyStep(k)
    THEN check_property_by_output(FallbackFlags[k], o)
    ELSE get_stat_int(FallbackFlags[k], o)


\* ------------------------------------------------------------ SpotAnalyzer
\* the formulas handed to classify by callers other than Stats: "", "not p"
EmptyFormula == <<>>

FormulaNotP == <<"n", "o", "t", " ", "p">>

Formulas == {EmptyFormula, FormulaNotP}

\* the three diagnostics SpotAnalyzer can record
MissingAtCheck(missing) ==
    <<"[tlparser] Spot CLI tools not found (missing:">> \o missing
      \o <<"); extended digest columns will be empty.">>

MissingDuring ==
    <<"[tlparser] Required Spot CLI tool missing during classification;",
      "extended digest columns will be empty.">>

FailedFor(f, exc) ==
    <<"[tlparser] Spot classification failed for">> \o f \o <<":">> \o exc
      \o <<"; extended digest columns will be empty for this formula.">>

\* str(exc) of the error Popen raised
StrOSError(command) == <<"[Errno 13] Permission denied:", command[1]>>

record_warning(diags, message) ==
    IF message \in Range(diags) THEN diags ELSE Append(diags, message)

\* what spot_status can find: every tool, every tool but the translator, none
ToolSets ==
    {Range(REQUIRED_SPOT_TOOLS), Range(REQUIRED_SPOT_TOOLS) \ {"ltl2tgba"}, {}}

\* sorted(set(missing)) of _ensure_initialized, for the tools spot_status found
MissingTools(found) ==
    SelectSeq(REQUIRED_SPOT_TOOLS, LAMBDA t : t \notin found)

\* the key of a variant's analysis in the classification
AnalysisLabel(v) ==
    CASE v = "tgba"  -> "tgba_analysis"
      [] v = "buchi" -> "buchi_analysis"
      [] v = "det"   -> "deterministic_attempt"

GetAnalysis(cls, v) ==
    IF v = "det"
    THEN cls.deterministic_attempt.automaton_analysis
    ELSE cls[AnalysisLabel(v)]

SetAnalysis(cls, v, a) ==
    IF v = "det"
    THEN [cls EXCEPT !.deterministic_attempt.automaton_analysis = a]
    ELSE [cls EXCEPT ![AnalysisLabel(v)] = a]

\* any(value == "Error" for value in data.values())
AnyError(data) == \E k \in DOMAIN data : data[k] = "Error"

\* mutation of scan_analysis: no return after the analysis_error tag
scan_analysis_NoReturn(res, label) ==
    LET data == res[label]
    IN  (IF "analysis_error" \in DOMAIN data
         THEN <<<<label, "(", data.analysis_error, ")">>>> ELSE <<>>)
        \o (IF AnyError(data) THEN <<<<label>>>> ELSE <<>>)

\* _scan_analysis(label) of _record_partial_warning
scan_analysis(res, label) ==
    LET data == res[label]
    IN  IF "analysis_error" \in DOMAIN data
        THEN <<<<label, "(", data.analysis_error, ")">>>>
        ELSE IF AnyError(data) THEN <<<<label>>>> ELSE <<>>

\* the list issues that _record_partial_warning builds from a result
Issues(res) ==
    LET det == res.deterministic_attempt
    IN  (IF res.syntactic_safety = "Error" THEN <<<<"syntactic_safety">>>> ELSE <<>>)
        \o (IF res.is_stutter_invariant_formula = "Error"
            THEN <<<<"stutter_invariance">>>> ELSE <<>>)
        \o (IF res.manna_pnueli_class[1] \in {"Error", "error"}
            THEN <<<<"manna_pnueli_class">>>> ELSE <<>>)
        \o scan_analysis(res, "tgba_analysis")
        \o scan_analysis(res, "buchi_analysis")
        \o (IF det.success = "False"
            THEN (IF "error" \in DOMAIN det /\ det.error # <<>>
                  THEN <<<<"deterministic_attempt", "(">> \o det.error \o <<")">>>>
                  ELSE <<<<"deterministic_attempt">>>>)
            ELSE (IF AnyError(det.automaton_analysis)
                  THEN <<<<"deterministic_attempt">>>> ELSE <<>>))

\* self._issue_map.setdefault(formula, set()).update(issues), if issues
record_partial_warning(imap, f, res) ==
    LET iss == Issues(res)
    IN  IF iss = <<>> THEN imap
        ELSE [g \in DOMAIN imap \cup {f} |->
                (IF g \in DOMAIN imap THEN imap[g] ELSE {}) \cup Range(iss)]

\* ------------------------------------------------ SpotAnalyzer.issue_entries
\* the characters and words that formulas and issue tags are made of, in the
\* order of str
Lexicon ==
    <<" ", "!", "(", ")", "--stats=%s %t %p %d %a", "-B", "-D", "-f", "0",
      "1", "2", "7", "<", "=", "Command",
      "Empty or malformed HOA input for autfilt fallback",
      "Failed to get direct stats from ltl2tgba:", "G",
      "Unexpected stats output format from ltl2tgba.", "buchi_analysis",
      "deterministic_attempt", "invalid literal for int()", "ltl2tgba",
      "manna_pnueli_class", "n", "o", "p", "returned non-zero exit status",
      "stutter_invariance", "syntactic_safety", "t", "tgba_analysis", "x">>

Rank(w) == CHOOSE i \in 1..Len(Lexicon) : Lexicon[i] = w

\* a < b of two str
RECURSIVE StrLess(_, _)
StrLess(a, b) ==
    IF b = <<>> THEN FALSE
    ELSE IF a = <<>> THEN TRUE
    ELSE IF a[1] = b[1] THEN StrLess(Tail(a), Tail(b))
    ELSE Rank(a[1]) < Rank(b[1])

\* mutation of sorted: the greatest element first
RECURSIVE sorted_Descending(_)
sorted_Descending(S) ==
    IF S = {} THEN <<>>
    ELSE LET greatest == CHOOSE x \in S : \A y \in S \ {x} : StrLess(y, x)
         IN  <<greatest>> \o sorted_Descending(S \ {greatest})

\* sorted(S) of a set, or of the keys of a dict, of str
RECURSIVE sorted(_)
sorted(S) ==
    IF S = {} THEN <<>>
    ELSE LET least == CHOOSE x \in S : \A y \in S \ {x} : StrLess(x, y)
         IN  <<least>> \o sorted(S \ {least})

\* [(formula, sorted(self._issue_map[formula])) for formula in sorted(self._issue_map)]
issue_entries(imap) ==
    LET formulas == sorted(DOMAIN imap)
    IN  [i \in 1..Len(formulas) |-> <<formulas[i], sorted(imap[formulas[i]])>>]

\* the dict classify_ltl_property starts from
InitialClassification(ltl_formula) ==
    [formula |-> ltl_formula,
     syntactic_safety |-> "None",
     is_stutter_invariant_formula |-> "None",
     manna_pnueli_class |-> <<"Unknown">>,
     tgba_analysis |-> <<>>,
     buchi_analysis |-> <<>>,
     deterministic_attempt |-> [success |-> "None", automaton_analysis |-> <<>>]]

\* mutation of ClassifyResult: the dict of the backend is returned with the
\* translated formula left under "formula"
ClassifyResult_Unstamped(cls, f) ==
    cls @@ [spot_formula |-> cls.formula]

\* what classify does to the dict the backend returned
ClassifyResult(cls, f) ==
    [cls EXCEPT !.formula = f] @@ [spot_formula |-> cls.formula]


\* ------------------------------------------- Stats.analyse_comparison_ops
\* len(pattern.findall(s)) for a literal pattern: matches do not overlap
RECURSIVE CountLiteral(_, _, _)
CountLiteral(s, pat, i) ==
    IF i > Len(s) THEN 0
    ELSE IF Slice(s, i, Len(pat)) = pat
         THEN 1 + CountLiteral(s, pat, i + Len(pat))
         ELSE CountLiteral(s, pat, i + 1)

\* len(re.findall(r"(?<!c)c(?![=c])", s)) for c = "<" and c = ">"
CountLone(s, c) ==
    Cardinality({i \in 1..Len(s) :
        /\ s[i] = c
        /\ ~(i > 1 /\ s[i - 1] = c)
        /\ ~(i < Len(s) /\ s[i + 1] \in {"=", c})})

\* mutation of ImpliesPlaceholder: the implication is left as it is
ImpliesPlaceholder_Kept == <<"-", "-", ">">>

ImpliesPlaceholder == <<"_", "_", "I", "M", "P", "L", "I", "E", "S", "_", "_">>

\* counts, taken on the formula with every "-->" replaced by the placeholder
ComparisonCounts(formula_str) ==
    LET formula_tmp == SubLiteral(formula_str, <<"-", "-", ">">>, ImpliesPlaceholder, 1)
    IN  [eq  |-> CountLiteral(formula_tmp, <<"=", "=">>, 1),
         leq |-> CountLiteral(formula_tmp, <<"<", "=">>, 1),
         geq |-> CountLiteral(formula_tmp, <<">", "=">>, 1),
         neq |-> CountLiteral(formula_tmp, <<"!", "=">>, 1),
         lt  |-> CountLone(formula_tmp, "<"),
         gt  |-> CountLone(formula_tmp, ">")]

\* first index >= i that holds no character of the class
RECURSIVE SkipWhile(_, _, _)
SkipWhile(s, i, class) ==
    IF i <= Len(s) /\ s[i] \in class THEN SkipWhile(s, i + 1, class) ELSE i

WordChars == Range(UpperLetters) \cup Range(LowerLetters) \cup Digits \cup {"_"}

\* the index after the match of r"\b[\w.]+ *[<>!=]=? *-?\w+\b" that starts at
\* s[i], or 0 if none starts there (each quantifier can only take its longest
\* run: the character after a shorter one fits nothing that follows)
ComparisonEnd(s, i) ==
    LET a == SkipWhile(s, i, WordChars \cup {"."})
        b == SkipWhile(s, a, {" "})
        c == IF b + 1 <= Len(s) /\ s[b + 1] = "=" THEN b + 2 ELSE b + 1
        d == SkipWhile(s, c, {" "})
        e == IF d <= Len(s) /\ s[d] = "-" THEN d + 1 ELSE d
        f == SkipWhile(s, e, WordChars)
    IN  IF /\ WordBoundary(s, i)
           /\ a > i
           /\ b <= Len(s)
           /\ s[b] \in {"<", ">", "!", "="}
           /\ f > e
        THEN f
        ELSE 0

\* str.replace(old, new) for a one-character old
ReplaceChar(s, old, new) ==
    SubLiteral(s, <<old>>, new, 1)

Contains(s, pat) == \E i \in 1..Len(s) : Slice(s, i, Len(pat)) = pat

\* replace_comparisons(match): None (the empty string, to re.sub) when the
\* operator matched is a lone "=" or "!"
replace_comparisons(matched) ==
    LET expression == ReplaceChar(ReplaceChar(matched, " ", <<>>), "-", <<"n">>)
        token(name) == <<"_">> \o name \o <<"_">>
    IN  IF Contains(expression, <<"<", "=">>)
        THEN SubLiteral(expression, <<"<", "=">>, token(<<"l", "e", "q">>), 1)
        ELSE IF Contains(expression, <<">", "=">>)
        THEN SubLiteral(expression, <<">", "=">>, token(<<"g", "e", "q">>), 1)
        ELSE IF Contains(expression, <<"=", "=">>)
        THEN SubLiteral(expression, <<"=", "=">>, token(<<"e", "q">>), 1)
        ELSE IF Contains(expression, <<"!", "=">>)
        THEN SubLiteral(expression, <<"!", "=">>, token(<<"n", "e", "q">>), 1)
        ELSE IF Contains(expression, <<"<">>)
        THEN ReplaceChar(expression, "<", token(<<"l", "t">>))
        ELSE IF Contains(expression, <<">">>)
        THEN ReplaceChar(expression, ">", token(<<"g", "t">>))
        ELSE <<>>

\* re.sub(r"\b[\w.]+ *[<>!=]=? *-?\w+\b", replace_comparisons, s)
RECURSIVE SubComparisons(_, _)
SubComparisons(s, i) ==
    IF i > Len(s) THEN <<>>
    ELSE LET j == ComparisonEnd(s, i)
         IN  IF j # 0
             THEN replace_comparisons(SubSeq(s, i, j - 1)) \o SubComparisons(s, j)
             ELSE <<s[i]>> \o SubComparisons(s, i + 1)

\* re.sub(r"(\d+(\.\d+)?)", r"n\1", s)
RECURSIVE PrefixNumbers(_, _)
PrefixNumbers(s, i) ==
    IF i > Len(s) THEN <<>>
    ELSE IF s[i] \in Digits
         THEN LET a == SkipWhile(s, i, Digits)
                  b == IF /\ a + 1 <= Len(s)
                          /\ s[a] = "."
                          /\ s[a + 1] \in Digits
                       THEN SkipWhile(s, a + 1, Digits)
                       ELSE a
              IN  <<"n">> \o SubSeq(s, i, b - 1) \o PrefixNumbers(s, b)
         ELSE <<s[i]>> \o PrefixNumbers(s, i + 1)

NormalizedFormula(formula_str) ==
    PrefixNumbers(SubComparisons(formula_str, 1), 1)

\* (counts, modified_string)
analyse_comparison_ops(formula_str) ==
    <<ComparisonCounts(formula_str), NormalizedFormula(formula_str)>>

\* ------------------------------------------------------- the parsed formula
\* a node of the tree CTLS.Parser returns: its class, and its _subformula or,
\* for an atomic proposition, its text
AtomicProposition(name) == [kind |-> "AtomicProposition", name |-> name]

Operator(kind, subformula) == [kind |-> kind, sub |-> subformula]

\* the formulas handed to Stats: "", "G(x <= 7)", "<= 7"
FormulaGxLeq7 == <<"G", "(", "x", " ", "<", "=", " ", "7", ")">>

FormulaLeq7 == <<"<", "=", " ", "7">>

StatsFormulas == {EmptyFormula, FormulaGxLeq7, FormulaLeq7}

\* the formula of STATS_TEST_CASES that the statistics are worked out for:
\* "G((y and u == 9) --> F(not y or i < 3))"
FormulaExample ==
    <<"G", "(", "(", "y", " ", "a", "n", "d", " ", "u", " ", "=", "=", " ",
      "9", ")", " ", "-", "-", ">", " ", "F", "(", "n", "o", "t", " ", "y",
      " ", "o", "r", " ", "i", " ", "<", " ", "3", ")", ")">>

ExampleFormulas == {FormulaExample}

\* the conjunction as it is written between two propositions
AndWord == <<" ", "a", "n", "d", " ">>

\* the propositions of the formulas "p and q" handed to Stats: identifiers,
\* and comparisons of x with a number, a negative number and an identifier
Identifiers == {<<"x">>, <<"n", "1">>, <<"x", "1">>}

ComparedTo == {<<"1">>, <<"-", "1">>, <<"n", "1">>, <<"y">>}

Propositions ==
    Identifiers
    \cup {<<"x">> \o op \o right :
             op \in {<<"<">>, <<"<", "=">>, <<"=", "=">>}, right \in ComparedTo}

\* p(self.formula_parsable) on the normalized texts of those formulas: the
\* tree, or the parser's rejection; "p and q" for two names p and q is their
\* conjunction
Parse(text) ==
    IF text = <<"G", "(", "x", "_", "l", "e", "q", "_", "n", "7", ")">>
    THEN [ok |-> TRUE,
          tree |-> Operator("G", <<AtomicProposition(
                       <<"x", "_", "l", "e", "q", "_", "n", "7">>)>>)]
    ELSE IF text =
        <<"G", "(", "(", "y", " ", "a", "n", "d", " ", "u", "_", "e", "q",
          "_", "n", "9", ")", " ", "-", "-", ">", " ", "F", "(", "n", "o",
          "t", " ", "y", " ", "o", "r", " ", "i", "_", "l", "t", "_", "n",
          "3", ")", ")">>
    THEN [ok |-> TRUE,
          tree |->
            Operator("G", <<Operator("Imply",
              <<Operator("And", <<AtomicProposition(<<"y">>),
                                  AtomicProposition(
                                    <<"u", "_", "e", "q", "_", "n", "9">>)>>),
                Operator("F", <<Operator("Or",
                  <<Operator("Not", <<AtomicProposition(<<"y">>)>>),
                    AtomicProposition(
                      <<"i", "_", "l", "t", "_", "n", "3">>)>>)>>)>>)>>)]
    ELSE LET at == {i \in 1..Len(text) : Slice(text, i, Len(AndWord)) = AndWord}
             IsName(w) == w # <<>> /\ \A i \in 1..Len(w) : IsWordChar(w[i])
         IN  IF at = {} THEN [ok |-> FALSE, tree |-> <<>>]
             ELSE LET i == CHOOSE i \in at : \A j \in at : i <= j
                      left == SubSeq(text, 1, i - 1)
                      right == SubSeq(text, i + Len(AndWord), Len(text))
                  IN  IF IsName(left) /\ IsName(right)
                      THEN [ok |-> TRUE,
                            tree |-> Operator("And", <<AtomicProposition(left),
                                                       AtomicProposition(right)>>)]
                      ELSE [ok |-> FALSE, tree |-> <<>>]

Max(a, b) == IF a >= b THEN a ELSE b

\* node.height
RECURSIVE Height(_)
Height(node) ==
    IF node.kind = "AtomicProposition" \/ "sub" \notin DOMAIN node THEN 0
    ELSE LET RECURSIVE Highest(_)
             Highest(i) == IF i > Len(node.sub) THEN 0
                           ELSE Max(Height(node.sub[i]), Highest(i + 1))
         IN  1 + Highest(1)

\* ------------------------------------------------------ Stats.analyze_formula
LogicalKinds == {"Imply", "And", "Or", "Not"}

TemporalKinds == {"A", "E", "X", "F", "G", "U", "R"}

LopsKey(kind) ==
    CASE kind = "Imply" -> "impl"
      [] kind = "And"   -> "and"
      [] kind = "Or"    -> "or"
      [] kind = "Not"   -> "not"

\* mutation of Increment: every node counts once
Increment_Once(node) == 1

\* mutation of Increment: the sign of the count of an And or Or node is wrong
Increment_Negated(node) ==
    IF node.kind \in {"And", "Or"} THEN 1 - Len(node.sub) ELSE 1

\* what one node adds to its tally
Increment(node) ==
    IF node.kind \in {"And", "Or"} THEN Len(node.sub) - 1 ELSE 1

\* mutation of RootHeight: the height of every node visited is stored
RootHeight_EveryLevel(w, node, level) == [w EXCEPT !.self.asth = Height(node)]

\* if level == 0: self.asth = node.height
RootHeight(w, node, level) ==
    IF level = 0 THEN [w EXCEPT !.self.asth = Height(node)] ELSE w

\* the walk over the tree, on w = [self: the attributes, raised: the error
\* that ended the walk, if any]
RECURSIVE analyze_formula(_, _, _)
analyze_formula(w, node, level) ==
    LET rooted == RootHeight(w, node, level)
        counted ==
            IF node.kind \in LogicalKinds
            THEN [rooted EXCEPT !.self.lops[LopsKey(node.kind)] = @ + Increment(node)]
            ELSE IF node.kind \in TemporalKinds
            THEN [rooted EXCEPT !.self.tops[node.kind] = @ + 1]
            ELSE rooted
        RECURSIVE Subformulas(_, _)
        Subformulas(v, i) ==
            IF i > Len(node.sub) \/ v.raised # "no" THEN v
            ELSE Subformulas(analyze_formula(v, node.sub[i], level + 1), i + 1)
    IN  IF node.kind = "AtomicProposition"
        THEN [rooted EXCEPT !.self.ap = @ \cup {node.name}]
        ELSE IF "sub" \in DOMAIN node
        THEN Subformulas(counted, 1)
        ELSE [counted EXCEPT !.raised = "ValueError"]

\* sum(d.values())
Sum(d) ==
    LET RECURSIVE Total(_)
        Total(keys) == IF keys = {} THEN 0
                       ELSE LET k == CHOOSE k \in keys : TRUE
                            IN  d[k] + Total(keys \ {k})
    IN  Total(DOMAIN d)

\* mutation of update_aggregates: the propositions are counted where they occur
update_aggregates_PerOccurrence(self) ==
    [aps  |-> Cardinality(self.ap) + self.lops["not"],
     cops |-> Sum(self.cops),
     lops |-> Sum(self.lops),
     tops |-> Sum(self.tops)]

update_aggregates(self) ==
    [aps  |-> Cardinality(self.ap),
     cops |-> Sum(self.cops),
     lops |-> Sum(self.lops),
     tops |-> Sum(self.tops)]

\* list(d.values()), in the order the keys were inserted
TopsValues(tops) == <<tops.A, tops.E, tops.X, tops.F, tops.G, tops.U, tops.R>>

LopsValues(lops) == <<lops.impl, lops["and"], lops["or"], lops["not"]>>

\* sum(values) of a list
ListSum(values) ==
    LET RECURSIVE Upto(_)
        Upto(n) == IF n = 0 THEN 0 ELSE values[n] + Upto(n - 1)
    IN  Upto(Len(values))

\* scipy's entropy(values, base=2): the values are divided by their sum and
\* -sum(p * log2(p)) is returned.  All values zero: 0/0 is nan and so is the
\* result; one value not zero: 0.0; the other results are positive and are
\* left uninterpreted
entropy(values) ==
    [entropy_of |-> values,
     base |-> 2,
     value |-> IF ListSum(values) = 0 THEN "nan"
               ELSE IF Cardinality({n \in DOMAIN values : values[n] # 0}) = 1
                    THEN "0.0"
               ELSE "positive"]

calc_entropy(self) ==
    LET entr_tops == entropy(TopsValues(self.tops))
        entr_lops == entropy(LopsValues(self.lops))
        entr_tops_lops == entropy(TopsValues(self.tops) \o LopsValues(self.lops))
    IN  [lops |-> entr_tops, tops |-> entr_lops, lops_tops |-> entr_tops_lops]

\* Stats.get_stats: vars(self) without the key ""
get_stats(self) == [key \in DOMAIN self \ {""} |-> self[key]]

\* ------------------------------------------ Stats.get_requirement_text_stats
\* the requirement texts handed to Stats: none (None and "" take the same
\* branch) and "Go. on"
NoText == <<>>

TextGoOn == <<"G", "o", ".", " ", "o", "n">>

ReqTexts == {NoText, TextGoOn}

\* the requirements handed to Stats: a formula with the text it formalises
Requirements ==
    {[f_code |-> EmptyFormula, text |-> NoText],
     [f_code |-> EmptyFormula, text |-> TextGoOn],
     [f_code |-> FormulaGxLeq7, text |-> TextGoOn],
     [f_code |-> FormulaLeq7, text |-> NoText]}

SentenceEnds == {".", "!", "?"}

\* len(text.split())
WordCount(text) ==
    Cardinality({i \in 1..Len(text) :
        ~IsSpace(text[i]) /\ (i = 1 \/ IsSpace(text[i - 1]))})

\* len(re.findall(r"[.!?]+(?:\s|$)", text)): one match for each maximal run of
\* sentence marks that white space or the end of the text follows
SentenceCount(text) ==
    Cardinality({i \in 1..Len(text) :
        /\ text[i] \in SentenceEnds
        /\ i = Len(text) \/ IsSpace(text[i + 1])})

\* (char_count, word_count, sentence_count), each None or a numeral
get_requirement_text_stats(req_text) ==
    IF req_text = <<>> THEN <<"None", "None", "None">>
    ELSE LET stripped == Strip(req_text)
             cleaned_text == IF stripped # <<>> /\ stripped[Len(stripped)] \notin SentenceEnds
                             THEN stripped \o <<".">>
                             ELSE stripped
         IN  <<NumeralOf(Len(cleaned_text)),
               NumeralOf(WordCount(cleaned_text)),
               NumeralOf(SentenceCount(cleaned_text))>>

\* -------------------------------------------------------------- Stats.__init__
\* the attributes set before the formula is looked at
InitialAttributes(formula_str, req_text) ==
    LET req_text_stats == get_requirement_text_stats(req_text)
    IN  [formula_raw |-> formula_str,
         formula_parsable |-> <<>>,
         formula_parsed |-> <<>>,
         spot |-> <<>>,
         req_len |-> req_text_stats[1],
         req_word_count |-> req_text_stats[2],
         req_sentence_count |-> req_text_stats[3],
         cops |-> [eq |-> 0, neq |-> 0, gt |-> 0, geq |-> 0, lt |-> 0, leq |-> 0],
         tops |-> [A |-> 0, E |-> 0, X |-> 0, F |-> 0, G |-> 0, U |-> 0, R |-> 0],
         lops |-> [k \in {"impl", "and", "or", "not"} |-> 0],
         asth |-> 0,
         ap |-> {}]

\* if len(self.formula_raw) > 0
HasFormula(self) == Len(self.formula_raw) > 0

\* mutation of Analysed: a formula the parser rejects is left unparsed
Analysed_Lenient(self) ==
    LET counted == analyse_comparison_ops(self.formula_raw)
        normalized == [self EXCEPT !.cops = counted[1], !.formula_parsable = counted[2]]
        parsed == Parse(normalized.formula_parsable)
    IN  IF ~parsed.ok
        THEN [self |-> normalized, raised |-> "no"]
        ELSE analyze_formula(
               [self |-> [normalized EXCEPT !.formula_parsed = parsed.tree],
                raised |-> "no"],
               parsed.tree, 0)

\* the normalizer, the parser and the walk: [self, raised]
Analysed(self) ==
    LET counted == analyse_comparison_ops(self.formula_raw)
        normalized == [self EXCEPT !.cops = counted[1], !.formula_parsable = counted[2]]
        parsed == Parse(normalized.formula_parsable)
    IN  IF ~parsed.ok
        THEN [self |-> normalized, raised |-> "ParseError"]
        ELSE analyze_formula(
               [self |-> [normalized EXCEPT !.formula_parsed = parsed.tree],
                raised |-> "no"],
               parsed.tree, 0)

\* self.agg and self.entropy
Summarised(self) ==
    LET aggregated == self @@ [agg |-> update_aggregates(self)]
    IN  aggregated @@ [entropy |-> calc_entropy(aggregated)]

\* the analyzers a caller can hand to Stats: none, the stand-in of the tests
\* that logs its calls and returns None, and a SpotAnalyzer
Analyzers == {"None", "NullAnalyzer", "SpotAnalyzer"}

\* analyzer, after lines 85-87: the one injected, or a new SpotAnalyzer if
\* the class could be imported
AnalyzerUsed(spot_analyzer, importable) ==
    IF spot_analyzer # "None" THEN spot_analyzer
    ELSE IF importable THEN "NewSpotAnalyzer" ELSE "None"

\* the outcomes of spot_status where _ensure_initialized evaluates it
StatusOutcomes(evaluated) == IF evaluated THEN ToolSets ELSE {{}}

\* mutation of ClassifyArgument: the normalized text is handed over
ClassifyArgument_Parsable(self) == self.formula_parsable

\* the formula handed to analyzer.classify
ClassifyArgument(self) == self.formula_raw

\* lines 28-82 of the constructor for each formula and text of the model,
\* worked out once: the attributes before the formula is looked at, the error
\* raised if any, and the attributes when the analysis is complete
Construction ==
    [f \in StatsFormulas \cup ExampleFormulas |-> [t \in ReqTexts |->
        LET self == InitialAttributes(f, t)
            walked == Analysed(self)
        IN  [initial |-> self,
             raised |-> walked.raised,
             complete |-> Summarised(walked.self)]]]

\* _to_spot_syntax of each formula of the model, worked out once
SpotSyntax == [f \in Formulas \cup StatsFormulas |-> to_spot_syntax(f)]

\* ------------------------------------------------------------------- state
VARIABLES
    available,       \* SpotAnalyzer._available: "None", "True" or "False"
    diagnostics,     \* SpotAnalyzer._diagnostics
    issue_map,       \* SpotAnalyzer._issue_map
    pc,              \* where the call in progress stands ("idle": none)
    formula,         \* the argument of the last classify call
    classification,  \* the dict classify_ltl_property is filling
    variant,         \* the automaton variant being translated and analysed
    hoa,             \* hoa_automaton of that variant
    fbMode,          \* what becomes of the fallback's results: "all" of them
                     \* are the analysis, or only the "stutter" flag is kept
    fbStep,          \* the next autfilt invocation of analyze_automaton_fallback
    results,         \* the dict analyze_automaton_fallback is filling
    ret,             \* what the last classify call returned: "None", "result"
    result,          \* the dict it returned, if any
    issues,          \* the list _record_partial_warning built in that call
    calls,           \* classify calls made so far
    faults,          \* invocations so far whose outcome was not the nominal one
    errors,          \* invocations of the call that failed or gave no usable output
    statusChecks,    \* evaluations of spot_status so far
    backendCalls,    \* calls of classify_ltl_property so far
    checkedAt,       \* the call that evaluated spot_status last (0: none did)
    missingAtCheck,  \* the tools that evaluation found missing
    history,         \* per variant, how its translator and statistics runs ended
    last,            \* the command and outcome of the latest tool invocation
    stats,           \* the attributes of the Stats object of the latest operation
    ctor,            \* its constructor: "none", "running", "returned", "raised"
    ctorArgs,        \* formula_str, extended and spot_analyzer of that constructor
    null_calls,      \* _NullAnalyzer.calls
    ops,             \* operations started so far: classify calls and Stats(...)
    importable,      \* _SpotAnalyzer is not None: stats.py could import the class
    logAtStart,      \* len(calls) of the stand-in when the constructor started
    callsAtStart,    \* classify calls on the SpotAnalyzer made before it started
    subject,         \* the formula or tree handed to a function of Stats alone
    product          \* what the function applied to it gave

analyzerVars == <<available, diagnostics, issue_map>>

machineVars == <<pc, classification, variant, hoa, fbMode, fbStep, results>>

returnVars == <<ret, result, issues>>

ghostVars ==
    <<calls, faults, errors, statusChecks, backendCalls, checkedAt, missingAtCheck,
      history, last>>

statsVars == <<stats, ctor>>

callerVars == <<ctorArgs, null_calls, ops, importable, logAtStart, callsAtStart>>

functionVars == <<subject, product>>

protocolVars ==
    <<analyzerVars, machineVars, returnVars, formula, ghostVars, statsVars, callerVars>>

vars == <<protocolVars, functionVars>>

NoHistory == [v \in Variants |-> [translator |-> "none", stats |-> "none", stderr |-> <<>>]]

NoInvocation == [command |-> <<>>, outcome |-> Nominal(MatchOutputs)]

NoStats == <<>>

NoArgs == <<>>

NoSubject == <<>>

NoProduct == <<>>

\* the attributes SpotAnalyzer.__init__ sets, with the counters kept on the
\* instance: no call made, availability not checked
NewAnalyzer ==
    [available |-> "None", diagnostics |-> <<>>, issue_map |-> <<>>,
     calls |-> 0, statusChecks |-> 0, backendCalls |-> 0, checkedAt |-> 0,
     missingAtCheck |-> <<>>]

ProtocolInit ==
    /\ available = NewAnalyzer.available
    /\ diagnostics = NewAnalyzer.diagnostics
    /\ issue_map = NewAnalyzer.issue_map
    /\ pc = "idle"
    /\ formula = <<>>
    /\ classification = <<>>
    /\ variant = "none"
    /\ hoa = <<>>
    /\ fbMode = "none"
    /\ fbStep = 0
    /\ results = <<>>
    /\ ret = "nocall"
    /\ result = <<>>
    /\ issues = <<>>
    /\ calls = 0
    /\ faults = 0
    /\ errors = 0
    /\ statusChecks = 0
    /\ backendCalls = 0
    /\ checkedAt = 0
    /\ missingAtCheck = <<>>
    /\ history = NoHistory
    /\ last = NoInvocation
    /\ stats = NoStats
    /\ ctor = "none"
    /\ ctorArgs = NoArgs
    /\ null_calls = <<>>
    /\ ops = 0
    /\ importable \in BOOLEAN
    /\ logAtStart = 0
    /\ callsAtStart = 0

Init ==
    /\ ProtocolInit
    /\ subject = NoSubject
    /\ product = NoProduct

\* --------------------------------------------------- how a step can end
\* the call goes on: the next invocation is at position p
Continue(p, v, h, mode, k, res, cls) ==
    /\ pc' = p
    /\ variant' = v
    /\ hoa' = h
    /\ fbMode' = mode
    /\ fbStep' = k
    /\ results' = res
    /\ classification' = cls
    /\ UNCHANGED <<analyzerVars, returnVars, statsVars>>

Idle ==
    /\ pc' = "idle"
    /\ variant' = "none"
    /\ hoa' = <<>>
    /\ fbMode' = "none"
    /\ fbStep' = 0
    /\ results' = <<>>
    /\ classification' = <<>>

\* mutation of Returned_to: the result is merged into the attributes
Returned_to_Merged(self, by, value) ==
    IF by = "running"
    THEN /\ stats' = [self EXCEPT !.spot = value, !.tops = [k \in DOMAIN @ |-> 0]]
         /\ ctor' = "returned"
    ELSE /\ stats' = self
         /\ ctor' = by

\* classify returned value to a Stats constructor, which stores it in
\* self.spot and returns, or to another caller
Returned_to(self, by, value) ==
    IF by = "running"
    THEN /\ stats' = [self EXCEPT !.spot = value]
         /\ ctor' = "returned"
    ELSE /\ stats' = self
         /\ ctor' = by

\* classify_ltl_property returned cls: classify stamps the formulas on it,
\* records the partial failures and returns it
ReturnResult(cls) ==
    LET res == ClassifyResult(cls, formula)
    IN  /\ result' = res
        /\ ret' = "result"
        /\ Returned_to(stats, ctor, res)
        /\ issues' = Issues(res)
        /\ issue_map' = record_partial_warning(issue_map, formula, res)
        /\ UNCHANGED <<available, diagnostics>>
        /\ Idle

\* mutation of ReturnNoneAfter: a missing tool does not mark the analyzer
\* unavailable
ReturnNoneAfter_StaysAvailable(r) ==
    /\ diagnostics' =
          IF r.type = "FileNotFoundError"
          THEN record_warning(diagnostics, MissingDuring)
          ELSE record_warning(diagnostics, FailedFor(formula, StrOSError(r.cmd)))
    /\ UNCHANGED available
    /\ ret' = "None"
    /\ result' = <<>>
    /\ issues' = <<>>
    /\ Returned_to(stats, ctor, <<>>)
    /\ UNCHANGED issue_map
    /\ Idle

\* mutation of ReturnNoneAfter: any error marks the analyzer unavailable
ReturnNoneAfter_MarksUnavailable(r) ==
    /\ diagnostics' =
          IF r.type = "FileNotFoundError"
          THEN record_warning(diagnostics, MissingDuring)
          ELSE record_warning(diagnostics, FailedFor(formula, StrOSError(r.cmd)))
    /\ available' = "False"
    /\ ret' = "None"
    /\ result' = <<>>
    /\ issues' = <<>>
    /\ Returned_to(stats, ctor, <<>>)
    /\ UNCHANGED issue_map
    /\ Idle

\* classify_ltl_property raised: the except clauses of classify
ReturnNoneAfter(r) ==
    /\ IF r.type = "FileNotFoundError"
       THEN /\ diagnostics' = record_warning(diagnostics, MissingDuring)
            /\ available' = "False"
       ELSE /\ diagnostics' =
                   record_warning(diagnostics, FailedFor(formula, StrOSError(r.cmd)))
            /\ UNCHANGED available
    /\ ret' = "None"
    /\ result' = <<>>
    /\ issues' = <<>>
    /\ Returned_to(stats, ctor, <<>>)
    /\ UNCHANGED issue_map
    /\ Idle

\* mutation of NextVariant: the deterministic variant is requested second
NextVariant_DeterministicFirst(v) == IF v = "tgba" THEN "det" ELSE "buchi"

NextVariant(v) == IF v = "tgba" THEN "buchi" ELSE "det"

\* analyze_automaton_fallback(h) returned res for variant v
EndFallback(v, mode, cls, res) ==
    LET analysis == IF mode = "all"
                    THEN res
                    ELSE [is_stutter_invariant |-> res.is_stutter_invariant]
                           @@ GetAnalysis(cls, v)
        cls2 == SetAnalysis(cls, v, analysis)
    IN  IF v = "det"
        THEN ReturnResult(cls2)
        ELSE Continue("translate", NextVariant(v), <<>>, "none", 0, <<>>, cls2)

\* analyze_automaton_fallback(h) is called for variant v
BeginFallback(v, h, mode, cls) ==
    IF h = <<>>
    THEN EndFallback(v, mode, cls, EmptyHoaResults)
    ELSE Continue("fallback", v, h, mode, 1, <<>>, cls)

\* get_automaton_and_stats returned (h, stats_dict) for variant v: the
\* branch of classify_ltl_property that follows
AfterStats(v, h, stats_dict, cls) ==
    IF "error" \in DOMAIN stats_dict
    THEN IF v = "det"
         THEN ReturnResult(
                [cls EXCEPT !.deterministic_attempt =
                   [success |-> "False", automaton_analysis |-> <<>>,
                    error |-> stats_dict.error]])
         ELSE BeginFallback(v, h, "all", cls)
    ELSE IF v = "det"
         THEN BeginFallback(v, h, "stutter",
                [cls EXCEPT !.deterministic_attempt =
                   [success |-> "True", automaton_analysis |-> stats_dict]])
         ELSE BeginFallback(v, h, "stutter", SetAnalysis(cls, v, stats_dict))

\* ------------------------------------------------------------ bookkeeping
\* a tool invocation with outcome o drawn from the outputs of its kind
Invoked(command, o, outputs, usable) ==
    /\ o \in Outcomes(outputs)
    /\ IF o = Nominal(outputs)
       THEN UNCHANGED faults
       ELSE faults < MaxFaults /\ faults' = faults + 1
    /\ errors' = IF usable THEN errors ELSE errors + 1
    /\ last' = [command |-> command, outcome |-> o]
    /\ UNCHANGED <<calls, statusChecks, backendCalls, checkedAt, missingAtCheck, formula,
                   callerVars, functionVars>>

\* ----------------------------------------------------- SpotAnalyzer.classify
\* mutation of NeedsCheck: only a positive answer is remembered
NeedsCheck_UnlessTrue(avail) == avail # "True"

\* mutation of NeedsCheck: the memo is never consulted
NeedsCheck_Always(avail) == TRUE

\* _ensure_initialized goes past its memo: self._available is None
NeedsCheck(avail) == avail = "None"

\* mutation of NoFormula: the empty formula is treated like any other
NoFormula_Never(f) == FALSE

\* if not formula: return None
NoFormula(f) == f = <<>>

\* the analyzer the model follows, as a record
ThisAnalyzer ==
    [available |-> available, diagnostics |-> diagnostics, issue_map |-> issue_map,
     calls |-> calls, statusChecks |-> statusChecks, backendCalls |-> backendCalls,
     checkedAt |-> checkedAt, missingAtCheck |-> missingAtCheck]

\* classify(f) on the analyzer a, called by a Stats constructor that holds
\* the attributes self (by = "running") or by another caller: an empty formula
\* gives None at once; otherwise _ensure_initialized decides, from the memo or
\* from spot_status (found: the tools it finds), whether classify_ltl_property
\* is entered
classify(a, f, self, by) ==
    /\ calls' = a.calls + 1
    /\ formula' = f
    /\ errors' = 0
    /\ history' = NoHistory
    /\ last' = NoInvocation
    /\ UNCHANGED faults
    /\ IF NoFormula(f)
       THEN /\ ret' = "None"
            /\ result' = <<>>
            /\ issues' = <<>>
            /\ Returned_to(self, by, <<>>)
            /\ Idle
            /\ available' = a.available
            /\ diagnostics' = a.diagnostics
            /\ issue_map' = a.issue_map
            /\ statusChecks' = a.statusChecks
            /\ backendCalls' = a.backendCalls
            /\ checkedAt' = a.checkedAt
            /\ missingAtCheck' = a.missingAtCheck
       ELSE \E found \in StatusOutcomes(NeedsCheck(a.available)) :
            LET checked == NeedsCheck(a.available)
                missing == MissingTools(found)
                ok == IF checked THEN missing = <<>> ELSE a.available = "True"
            IN  /\ statusChecks' = IF checked THEN a.statusChecks + 1 ELSE a.statusChecks
                /\ checkedAt' = IF checked THEN a.calls + 1 ELSE a.checkedAt
                /\ missingAtCheck' = IF checked THEN missing ELSE a.missingAtCheck
                /\ available' = IF ok THEN "True" ELSE "False"
                /\ diagnostics' = IF checked /\ ~ok
                                  THEN record_warning(a.diagnostics, MissingAtCheck(missing))
                                  ELSE a.diagnostics
                /\ issue_map' = a.issue_map
                /\ IF ok
                   THEN /\ backendCalls' = a.backendCalls + 1
                        /\ pc' = "safety"
                        /\ classification' = InitialClassification(SpotSyntax[f])
                        /\ ret' = "pending"
                        /\ result' = <<>>
                        /\ issues' = <<>>
                        /\ stats' = self
                        /\ ctor' = by
                        /\ UNCHANGED <<variant, hoa, fbMode, fbStep, results>>
                   ELSE /\ backendCalls' = a.backendCalls
                        /\ ret' = "None"
                        /\ result' = <<>>
                        /\ issues' = <<>>
                        /\ Returned_to(self, by, <<>>)
                        /\ Idle

\* a caller other than Stats calls classify(f) on the analyzer
Classify(f) ==
    /\ pc = "idle"
    /\ importable
    /\ ops < MaxCalls
    /\ ops' = ops + 1
    /\ ctorArgs' = NoArgs
    /\ logAtStart' = Len(null_calls)
    /\ callsAtStart' = calls
    /\ UNCHANGED <<null_calls, importable, functionVars>>
    /\ classify(ThisAnalyzer, f, NoStats, "none")

\* ---------------------------------------------------------------- Stats(...)
\* the constructor ends without a call of a SpotAnalyzer
Constructed(self, outcome) ==
    /\ stats' = self
    /\ ctor' = outcome
    /\ callsAtStart' = calls
    /\ UNCHANGED <<analyzerVars, machineVars, returnVars, formula, ghostVars>>

\* lines 84-89 of the constructor, after lines 28-82 built the attributes
Constructor(built, formula_str, extended, spot_analyzer) ==
    LET self == built.initial
        raised == built.raised
        summarised == built.complete
        analyzer == AnalyzerUsed(spot_analyzer, importable)
        a == IF analyzer = "NewSpotAnalyzer" THEN NewAnalyzer ELSE ThisAnalyzer
    IN  /\ pc = "idle"
        /\ spot_analyzer = "SpotAnalyzer" => importable
        /\ ops < MaxCalls
        /\ ops' = ops + 1
        /\ UNCHANGED <<importable, functionVars>>
        /\ ctorArgs' = [formula_str |-> formula_str, extended |-> extended,
                        spot_analyzer |-> spot_analyzer]
        /\ logAtStart' = Len(null_calls)
        /\ IF ~HasFormula(self)
           THEN Constructed(self, "returned") /\ UNCHANGED null_calls
           ELSE IF raised # "no"
           THEN Constructed(NoStats, "raised") /\ UNCHANGED null_calls
           ELSE IF ~extended \/ analyzer = "None"
           THEN Constructed(summarised, "returned") /\ UNCHANGED null_calls
           ELSE IF analyzer = "NullAnalyzer"
           THEN /\ null_calls' = Append(null_calls, ClassifyArgument(summarised))
                /\ Constructed(summarised, "returned")
           ELSE /\ UNCHANGED null_calls
                /\ callsAtStart' = a.calls
                /\ classify(a, ClassifyArgument(summarised), summarised, "running")

\* Stats(formula_str, req_text, extended=extended, spot_analyzer=spot_analyzer)
NewStats(formula_str, req_text, extended, spot_analyzer) ==
    Constructor(Construction[formula_str][req_text], formula_str, extended,
                spot_analyzer)

\* -------------------------------------------------- classify_ltl_property
CheckSafety(o) ==
    LET command == FormulaCmd("ltlfilt", classification.formula, <<"--syntactic-safety">>)
        value == check_ltl_property_type(classification.formula, "syntactic_safety", o)
    IN  /\ pc = "safety"
        /\ Invoked(command, o, MatchOutputs, value # "Error")
        /\ Continue("stutter", variant, hoa, fbMode, fbStep, results,
                    [classification EXCEPT !.syntactic_safety = value])
        /\ UNCHANGED history

CheckStutter(o) ==
    LET command == FormulaCmd("ltlfilt", classification.formula, <<"--stutter-invariant">>)
        value == check_ltl_property_type(classification.formula, "stutter_invariant", o)
    IN  /\ pc = "stutter"
        /\ Invoked(command, o, MatchOutputs, value # "Error")
        /\ Continue("manna", variant, hoa, fbMode, fbStep, results,
                    [classification EXCEPT !.is_stutter_invariant_formula = value])
        /\ UNCHANGED history

MannaPnueli(o) ==
    LET command == FormulaCmd("ltlfilt", classification.formula, <<"--format=%[vw]h">>)
        value == get_manna_pnueli_class(classification.formula, o)
    IN  /\ pc = "manna"
        /\ Invoked(command, o, ClassOutputs, value \notin {<<"Error">>, FormatIssue})
        /\ Continue("translate", "tgba", hoa, fbMode, fbStep, results,
                    [classification EXCEPT !.manna_pnueli_class = value])
        /\ UNCHANGED history

\* get_automaton_and_stats, first invocation: ltl2tgba -f formula [-B|-D]
Translate(o) ==
    LET command == FormulaCmd("ltl2tgba", classification.formula, VariantFlags(variant))
        r == invoke(command, o)
    IN  /\ pc = "translate"
        /\ Invoked(command, o, HoaOutputs, r.type = "return" /\ r.value # <<>>)
        /\ history' = [history EXCEPT ![variant].translator =
                         IF r.type # "return" THEN "failed"
                         ELSE IF r.value = <<>> THEN "empty" ELSE "produced",
                                      ![variant].stderr = r.stderr]
        /\ IF r.type \in {"FileNotFoundError", "OSError"}
           THEN ReturnNoneAfter(r)
           ELSE IF r.type = "CalledProcessError"
           THEN AfterStats(variant, <<>>, [error |-> StrCalledProcessError(r)],
                           classification)
           ELSE Continue("stats", variant, r.value, fbMode, fbStep, results,
                         classification)

\* get_automaton_and_stats, second invocation: the same with --stats
TranslatorStats(o) ==
    LET command == FormulaCmd("ltl2tgba", classification.formula,
                              VariantFlags(variant) \o <<"--stats=%s %t %p %d %a">>)
        r == invoke(command, o)
        stats_dict == StatsDictAfter(r)
    IN  /\ pc = "stats"
        /\ Invoked(command, o, StatsOutputs,
                   r.type = "return" /\ "error" \notin DOMAIN stats_dict)
        /\ history' = [history EXCEPT ![variant].stats =
                         IF r.type = "return" /\ "error" \notin DOMAIN stats_dict
                         THEN "ok" ELSE "failed"]
        /\ IF r.type \in {"FileNotFoundError", "OSError"}
           THEN ReturnNoneAfter(r)
           ELSE AfterStats(variant, hoa, stats_dict, classification)

\* analyze_automaton_fallback: its next autfilt invocation
Fallback(o) ==
    LET k == fbStep
        command == AutfiltCmd(FallbackFlags[k])
        value == FallbackValue(k, o)
        res == results @@ (FallbackKeys[k] :> value)
    IN  /\ pc = "fallback"
        /\ Invoked(command, o, FallbackOutputs(k), value # "Error")
        /\ UNCHANGED history
        /\ IF FallbackRaises(k, o)
           THEN ReturnNoneAfter(invoke(command, o))
           ELSE IF k < FallbackSteps
           THEN Continue("fallback", variant, hoa, fbMode, k + 1, res, classification)
           ELSE EndFallback(variant, fbMode, classification,
                            res @@ [analysis_source |-> "autfilt_fallback"])

Next ==
    \/ \E f \in Formulas : Classify(f)
    \/ \E entry \in Requirements, extended \in BOOLEAN, spot_analyzer \in Analyzers :
            NewStats(entry.f_code, entry.text, extended, spot_analyzer)
    \/ \E o \in Outcomes(MatchOutputs) : CheckSafety(o)
    \/ \E o \in Outcomes(MatchOutputs) : CheckStutter(o)
    \/ \E o \in Outcomes(ClassOutputs) : MannaPnueli(o)
    \/ \E o \in Outcomes(HoaOutputs) : Translate(o)
    \/ \E o \in Outcomes(StatsOutputs) : TranslatorStats(o)
    \/ \E o \in Outcomes(MatchOutputs \cup StatOutputs) : Fallback(o)

Spec == Init /\ [][Next]_vars


\* ------------------------------------------- the functions of Stats, alone
\* the tokens the formulas handed to the normalizer are made of: the six
\* comparison operators by kind, and an operand, a number, a blank, a closing
\* parenthesis and the implication
ComparisonTokens ==
    [eq  |-> <<"=", "=">>, neq |-> <<"!", "=">>,
     lt  |-> <<"<">>,      leq |-> <<"<", "=">>,
     gt  |-> <<">">>,      geq |-> <<">", "=">>]

ComparisonKinds == DOMAIN ComparisonTokens

ComparisonOperators == {ComparisonTokens[k] : k \in ComparisonKinds}

ImpliesToken == <<"-", "-", ">">>

OtherTokens == {<<"x">>, <<"7">>, <<" ">>, <<")">>, ImpliesToken}

\* the token sequences of up to MaxTokens tokens with at most one comparison
TokenLists ==
    {ts \in UNION {[1..n -> OtherTokens \cup ComparisonOperators] : n \in 0..MaxTokens} :
        Cardinality({i \in 1..Len(ts) : ts[i] \in ComparisonOperators}) <= 1}

RECURSIVE Concat(_)
Concat(ts) == IF ts = <<>> THEN <<>> ELSE Head(ts) \o Concat(Tail(ts))

\* the kinds of the comparisons of a token sequence
KindsOf(ts) ==
    {k \in ComparisonKinds : \E i \in 1..Len(ts) : ts[i] = ComparisonTokens[k]}

\* the ASTs handed to the walker: propositions, a node that is neither a
\* proposition nor has _subformula, operators over them (And and Or with 2 to
\* MaxChildren children), and operators over those
Leaves == {AtomicProposition(<<"p">>), AtomicProposition(<<"q">>)}

UnknownNode == [kind |-> "Bool"]

UnaryKinds == {"Not", "X", "F", "G", "A", "E"}

BinaryKinds == {"Imply", "U", "R"}

NaryKinds == {"And", "Or"}

Level1 ==
    {Operator(k, <<t>>) : k \in UnaryKinds, t \in Leaves \cup {UnknownNode}}
    \cup {Operator(k, <<t, u>>) : k \in BinaryKinds, t, u \in Leaves \cup {UnknownNode}}
    \cup UNION {{Operator(k, sub) : k \in NaryKinds, sub \in [1..n -> Leaves]} :
                   n \in 2..MaxChildren}

Trees ==
    Leaves \cup {UnknownNode} \cup Level1
    \cup {Operator(k, <<t>>) : k \in UnaryKinds, t \in Level1}
    \cup {Operator(k, <<t, AtomicProposition(<<"p">>)>>) :
             k \in NaryKinds \cup {"Imply"}, t \in Level1}

\* two operator characters written next to each other that are not one of
\* the six comparison operators ("<>", "=<", ">>", ...), alone and between
\* two operands
OperatorChars == {"<", ">", "="}

AdjacentOperators ==
    LET pairs == {<<a, b>> : a, b \in OperatorChars} \ ComparisonOperators
    IN  pairs \cup {<<"x">> \o pair \o <<"7">> : pair \in pairs}

\* the tokens the formulas handed to _to_spot_syntax alone are made of:
\* identifiers, the textual connectives, the symbolic operators bare and
\* between single blanks, and a blank
SyntaxTokens ==
    {<<"p">>, <<"a", "n", "d", "r", "o", "i", "d">>,
     <<"n", "o", "t">>, <<"N", "O", "T">>, <<"a", "n", "d">>, <<"o", "r">>,
     <<"-", "-", ">">>,
     <<"!">>, <<"&">>, <<"|">>, <<"-", ">">>,
     <<" ", "&", " ">>, <<" ", "-", ">", " ">>,
     <<" ">>}

\* the formulas of up to most such tokens
SyntaxTexts(most) ==
    {Concat(ts) : ts \in UNION {[1..n -> SyntaxTokens] : n \in 0..most}}

\* the subjects handed to _to_spot_syntax
TextSubjects(most) ==
    {[kind |-> "text", formula |-> f, comparisons |-> {}, node |-> <<>>] :
        f \in SyntaxTexts(most)}

Subjects ==
    {[kind |-> "formula", formula |-> Concat(ts), comparisons |-> KindsOf(ts),
      node |-> <<>>] : ts \in TokenLists}
    \cup {[kind |-> "conjunction", formula |-> p \o AndWord \o q,
           comparisons |-> {}, node |-> <<>>, propositions |-> {p, q}] :
             p, q \in Propositions}
    \cup {[kind |-> "formula", formula |-> f, comparisons |-> {},
           node |-> <<>>] : f \in AdjacentOperators}
    \cup {[kind |-> "formula", formula |-> f, comparisons |-> {"eq", "lt"},
           node |-> <<>>] : f \in ExampleFormulas}
    \cup {[kind |-> "tree", formula |-> <<>>, comparisons |-> {}, node |-> t] :
             t \in Trees}

FunctionInit ==
    /\ ProtocolInit
    /\ subject \in Subjects \cup TextSubjects(MaxTokens)
    /\ product = NoProduct

\* the function gave value
Gave(step, value) ==
    /\ product' = [step |-> step] @@ value
    /\ UNCHANGED <<subject, protocolVars>>

Pair(counted) == [counts |-> counted[1], modified_string |-> counted[2]]

\* Stats.analyse_comparison_ops(formula_str)
Normalize ==
    /\ subject.kind = "formula"
    /\ product = NoProduct
    /\ Gave("normalized", Pair(analyse_comparison_ops(subject.formula)))

\* Stats.analyse_comparison_ops on the string it returned
Renormalize ==
    /\ product # NoProduct
    /\ product.step = "normalized"
    /\ Gave("renormalized", Pair(analyse_comparison_ops(product.modified_string)))

\* self.analyze_formula(node) on a Stats object that has analysed nothing
Walk ==
    /\ subject.kind = "tree"
    /\ product = NoProduct
    /\ Gave("walked",
            analyze_formula([self |-> InitialAttributes(<<>>, NoText), raised |-> "no"],
                            subject.node, 0))

\* SpotAnalyzer()._to_spot_syntax(formula)
ToSpotSyntax ==
    /\ subject.kind = "text"
    /\ product = NoProduct
    /\ Gave("translated", [translated |-> to_spot_syntax(subject.formula)])

\* lines 70-81 of the constructor on a formula "p and q": the normalizer, the
\* parser and the walk, then the aggregates if nothing was raised
Aggregated(walked) ==
    [raised |-> walked.raised,
     self |-> IF walked.raised = "no"
              THEN walked.self @@ [agg |-> update_aggregates(walked.self)]
              ELSE walked.self]

Analyse ==
    /\ subject.kind = "conjunction"
    /\ product = NoProduct
    /\ Gave("analysed",
            Aggregated(Analysed(InitialAttributes(subject.formula, NoText))))

\* Stats(formula_str), or Stats(formula_str, extended=True, spot_analyzer=
\* _NullAnalyzer()), on a formula the constructor is modelled for
Build(extended) ==
    /\ subject.kind = "formula"
    /\ subject.formula \in StatsFormulas \cup ExampleFormulas
    /\ NewStats(subject.formula, NoText, extended,
                IF extended THEN "NullAnalyzer" ELSE "None")

FunctionNext ==
    \/ Normalize
    \/ Renormalize
    \/ Walk
    \/ ToSpotSyntax
    \/ Analyse
    \/ \E extended \in BOOLEAN : Build(extended)

FunctionSpec == FunctionInit /\ [][FunctionNext]_vars

\* ------------------------------------------------------------------ claims
SixFields ==
    {"state_count", "transition_count", "is_complete", "is_deterministic",
     "acceptance_sets", "is_stutter_invariant"}

BaseFields == SixFields \ {"is_stutter_invariant"}

\* every one of the six fields of analysis a holds a value other than "Error"
FullyPopulated(a) ==
    /\ SixFields \subseteq DOMAIN a
    /\ \A k \in SixFields : a[k] # "Error"

\* C1: whenever classify_ltl_property returns a result, each of the three
\* automaton analyses holds all six fields, and a variant whose translator
\* failed holds "Error" in all six.
C1_EveryAnalysisFullyShaped ==
    ret = "result" =>
        \A v \in Variants :
            LET a == GetAnalysis(result, v)
            IN  /\ SixFields \subseteq DOMAIN a
                /\ history[v].translator = "failed" =>
                       \A k \in SixFields : a[k] = "Error"

C1_Witness ==
    /\ ret = "result"
    /\ history["det"].translator = "failed"
    /\ result.deterministic_attempt.automaton_analysis = <<>>

\* C2: for each variant, if the translator produced an automaton and its
\* direct statistics failed, the five base fields come from autfilt.
C2_StatsFailureFallsBack ==
    ret = "result" =>
        \A v \in Variants :
            (history[v].translator = "produced" /\ history[v].stats = "failed") =>
                LET a == GetAnalysis(result, v)
                IN  /\ BaseFields \cup {"analysis_source"} \subseteq DOMAIN a
                    /\ a.analysis_source = "autfilt_fallback"

C2_Witness ==
    /\ ret = "result"
    /\ history["det"].translator = "produced"
    /\ history["det"].stats = "failed"
    /\ DOMAIN result.deterministic_attempt.automaton_analysis = {}
    /\ "analysis_source" \in DOMAIN result.tgba_analysis

\* C3: deterministic_attempt.success is true exactly when the translator run
\* with -D produced an automaton, whatever became of its statistics.
C3_SuccessIffAutomatonProduced ==
    ret = "result" =>
        (result.deterministic_attempt.success = "True"
            <=> history["det"].translator \in {"produced", "empty"})

C3_Witness ==
    /\ ret = "result"
    /\ history["det"].translator = "produced"
    /\ result.deterministic_attempt.success = "False"

\* C4: if the translator fails for exactly one variant and every other tool
\* invocation succeeds, the other two analyses hold no "Error" and exactly one
\* issue tag is recorded for the formula, which names the failed variant.
C4_OneTranslatorFailureOneTag ==
    (ret = "result" /\ errors = 1) =>
        \A v \in Variants :
            history[v].translator = "failed" =>
                /\ \A w \in Variants \ {v} : FullyPopulated(GetAnalysis(result, w))
                /\ Len(issues) = 1
                /\ issues[1][1] = AnalysisLabel(v)
                /\ formula \in DOMAIN issue_map
                /\ issues[1] \in issue_map[formula]
                /\ calls = 1 => issue_map[formula] = {issues[1]}

C4_Witness ==
    /\ ret = "result"
    /\ errors = 1
    /\ history["buchi"].translator = "failed"
    /\ history["tgba"].translator = "produced"
    /\ history["det"].translator = "produced"

\* C5: on an analyzer whose availability check found a tool missing, every
\* classify call returns None, classify_ltl_property is never called, and the
\* diagnostics hold exactly the one message naming the missing tools.
C5_UnavailableStaysSilent ==
    missingAtCheck # <<>> =>
        /\ ret = "None"
        /\ pc = "idle"
        /\ backendCalls = 0
        /\ diagnostics = <<MissingAtCheck(missingAtCheck)>>

C5_Witness ==
    /\ missingAtCheck # <<>>
    /\ formula # <<>>
    /\ checkedAt < calls
    /\ ret = "None"

\* C6: once a classify call has failed because a tool was not found during
\* classification, every later call returns None without calling
\* classify_ltl_property again, and that diagnostic is recorded exactly once.
C6_ToolLostDuringClassification ==
    MissingDuring \in Range(diagnostics) =>
        /\ available = "False"
        /\ pc = "idle"
        /\ ret = "None"
        /\ Cardinality({i \in 1..Len(diagnostics) : diagnostics[i] = MissingDuring}) = 1

C6_Witness ==
    /\ MissingDuring \in Range(diagnostics)
    /\ formula # <<>>
    /\ last = NoInvocation
    /\ ret = "None"

\* C7: when the translator of the deterministic variant exits with a non-zero
\* status and writes a diagnostic, deterministic_attempt.error holds that text.
C7_ErrorSlotHoldsDiagnostic ==
    (/\ ret = "result"
     /\ history["det"].translator = "failed"
     /\ history["det"].stderr # <<>>) =>
        /\ "error" \in DOMAIN result.deterministic_attempt
        /\ Range(history["det"].stderr) \subseteq Range(result.deterministic_attempt.error)

C7_Witness ==
    /\ ret = "result"
    /\ history["det"].translator = "failed"
    /\ history["det"].stderr = <<"stderr-text">>
    /\ "stderr-text" \notin Range(result.deterministic_attempt.error)

\* the tool exited with status 1 and wrote nothing
NoMatchExit(o) == o.rc = 1 /\ o.out = <<>> /\ o.err = <<>>

FilterVerdict(o) == IF NoMatchExit(o) THEN "False" ELSE "Error"

FailedExit(o) == o.kind = "exit" /\ o.rc # 0

\* C8: an ltlfilt property check or an autfilt property check that exits with
\* status 1 and no output puts False in its field; any other non-zero exit
\* puts "Error" there; no other field changes.
C8_FilterNoMatchIsFalse ==
    [][/\ (pc = "safety" /\ pc' = "stutter" /\ FailedExit(last'.outcome)) =>
             classification' = [classification EXCEPT
                                  !.syntactic_safety = FilterVerdict(last'.outcome)]
       /\ (pc = "stutter" /\ pc' = "manna" /\ FailedExit(last'.outcome)) =>
             classification' = [classification EXCEPT
                 !.is_stutter_invariant_formula = FilterVerdict(last'.outcome)]
       /\ (/\ pc = "fallback"
           /\ IsPropertyStep(fbStep)
           /\ pc' = "fallback"
           /\ FailedExit(last'.outcome)) =>
             /\ results' = results @@ (FallbackKeys[fbStep] :> FilterVerdict(last'.outcome))
             /\ classification' = classification
      ]_vars

C8_Witness ==
    /\ pc = "fallback"
    /\ fbStep = 2
    /\ NoMatchExit(last.outcome)
    /\ last.outcome.kind = "exit"
    /\ results.is_deterministic = "False"

\* a call of classify by a caller other than Stats starts in this step
DirectCall == ops' = ops + 1 /\ ctorArgs' = NoArgs

\* a Stats constructor starts in this step
ConstructorCall == ops' = ops + 1 /\ ctorArgs' # NoArgs

\* C9: classify("") returns None without evaluating spot_status, without
\* invoking a tool or classify_ltl_property, and leaves the diagnostics and the
\* issue map as they were; Stats("", extended=True, ...) returns without calling
\* any analyzer.
C9_EmptyFormulaTouchesNothing ==
    [][/\ (DirectCall /\ formula' = EmptyFormula) =>
             /\ ret' = "None"
             /\ pc' = "idle"
             /\ last' = NoInvocation
             /\ UNCHANGED <<available, diagnostics, issue_map, statusChecks,
                            backendCalls, faults>>
       /\ (/\ ConstructorCall
           /\ ctorArgs'.formula_str = EmptyFormula
           /\ ctorArgs'.extended) =>
             /\ ctor' = "returned"
             /\ stats'.spot = <<>>
             /\ pc' = "idle"
             /\ UNCHANGED <<null_calls, calls, available, diagnostics, issue_map,
                            statusChecks, backendCalls, last>>
      ]_vars

C9_Witness ==
    /\ calls = 1
    /\ formula = EmptyFormula
    /\ ret = "None"
    /\ statusChecks = 0
    /\ ctor = "returned"
    /\ ctorArgs.formula_str = EmptyFormula
    /\ ctorArgs.extended
    /\ ctorArgs.spot_analyzer = "NullAnalyzer"
    /\ null_calls = <<>>

\* the formulas of the model that the parser accepts once normalized
ParsableFormulas == {f \in StatsFormulas : Parse(NormalizedFormula(f)).ok}

\* C10: for a non-empty parsable formula, Stats with extended=True and an
\* injected analyzer calls that analyzer's classify exactly once, with the raw
\* formula; if the call returns None, spot is None and the constructor does not
\* raise. Without extended the analyzer is not called.
C10_AnalyzerCalledOnceWithRawFormula ==
    (/\ ctor # "none"
     /\ ctorArgs.formula_str # EmptyFormula
     /\ ctorArgs.formula_str \in ParsableFormulas) =>
        /\ ctor # "raised"
        /\ (ctorArgs.extended /\ ctorArgs.spot_analyzer = "NullAnalyzer") =>
              /\ null_calls = Append(SubSeq(null_calls, 1, logAtStart), ctorArgs.formula_str)
              /\ calls = callsAtStart
              /\ ctor = "returned"
              /\ stats.spot = <<>>
        /\ (ctorArgs.extended /\ ctorArgs.spot_analyzer = "SpotAnalyzer") =>
              /\ calls = callsAtStart + 1
              /\ formula = ctorArgs.formula_str
              /\ Len(null_calls) = logAtStart
              /\ (ctor = "returned" /\ ret = "None") => stats.spot = <<>>
        /\ ~ctorArgs.extended =>
              /\ Len(null_calls) = logAtStart
              /\ calls = callsAtStart
              /\ ctor = "returned"
              /\ stats.spot = <<>>

C10_Witness ==
    /\ ctor = "returned"
    /\ ctorArgs.formula_str = FormulaGxLeq7
    /\ ctorArgs.extended
    /\ ctorArgs.spot_analyzer = "NullAnalyzer"
    /\ null_calls = <<FormulaGxLeq7>>
    /\ stats.formula_parsable # stats.formula_raw
    /\ stats.spot = <<>>

\* the core statistics of a Stats object: AST height, proposition set, the
\* three tallies and the four aggregates
CoreKeys == {"asth", "ap", "cops", "tops", "lops", "agg"}

Core(self) == [k \in CoreKeys |-> self[k]]

\* the core statistics Stats(f) holds when extended analysis is off
CoreWithoutExtended ==
    [f \in ParsableFormulas |-> Core(Construction[f][NoText].complete)]

\* C11: the core statistics of a constructed Stats object are those of the
\* formula analysed without extended analysis, whether extended is off, on
\* with an analyzer that returns None, or on with one that returns a result.
C11_CoreStatsIgnoreExtended ==
    (/\ ctor = "returned"
     /\ ctorArgs # NoArgs
     /\ ctorArgs.formula_str # EmptyFormula) =>
        /\ CoreKeys \subseteq DOMAIN stats
        /\ Core(stats) = CoreWithoutExtended[ctorArgs.formula_str]

C11_Witness ==
    /\ ctor = "returned"
    /\ ctorArgs # NoArgs
    /\ ctorArgs.extended
    /\ ctorArgs.spot_analyzer = "SpotAnalyzer"
    /\ ret = "result"
    /\ stats.spot = result
    /\ stats.spot # <<>>
    /\ stats.agg.tops = 1

\* no element of the list occurs twice
NoDuplicates(list) == Cardinality(Range(list)) = Len(list)

\* list b is list a with elements appended
Extends(a, b) == Len(a) <= Len(b) /\ SubSeq(b, 1, Len(a)) = a

\* the list holds the elements of S once each, in ascending order
Ascending(list, S) ==
    /\ Range(list) = S
    /\ Len(list) = Cardinality(S)
    /\ \A i, j \in 1..Len(list) : i < j => StrLess(list[i], list[j])

\* entries lists the formulas of imap in order, each with its tags in order
EntriesSorted(imap, entries) ==
    /\ Ascending([i \in 1..Len(entries) |-> entries[i][1]], DOMAIN imap)
    /\ \A i \in 1..Len(entries) : Ascending(entries[i][2], imap[entries[i][1]])

\* issue maps of up to two formulas with up to three tags each
SampleTags ==
    {<<"tgba_analysis">>, <<"syntactic_safety">>,
     <<"tgba_analysis", "(", "Empty or malformed HOA input for autfilt fallback", ")">>}

SampleIssueMaps ==
    UNION {[fs -> SUBSET SampleTags \ {{}}] : fs \in SUBSET {FormulaNotP, FormulaGxLeq7}}

SampleEntriesSorted ==
    \A imap \in SampleIssueMaps : EntriesSorted(imap, issue_entries(imap))

\* the step is a Stats constructor that makes a SpotAnalyzer of its own
NewInstance ==
    /\ ConstructorCall
    /\ ctorArgs'.extended
    /\ AnalyzerUsed(ctorArgs'.spot_analyzer, importable) = "NewSpotAnalyzer"

FailedMeasurements(res) ==
    {"syntactic_safety" : x \in {1} \cap (IF res.syntactic_safety = "Error" THEN {1} ELSE {})}
    \cup {"stutter_invariance" :
            x \in {1} \cap (IF res.is_stutter_invariant_formula = "Error" THEN {1} ELSE {})}
    \cup {"manna_pnueli_class" :
            x \in {1} \cap (IF res.manna_pnueli_class \in {<<"Error">>, FormatIssue}
                            THEN {1} ELSE {})}
    \cup {l \in {"tgba_analysis", "buchi_analysis"} : AnyError(res[l])}
    \cup {"deterministic_attempt" :
            x \in {1} \cap (IF \/ res.deterministic_attempt.success = "False"
                               \/ AnyError(res.deterministic_attempt.automaton_analysis)
                            THEN {1} ELSE {})}

\* C13: when classify returns a result, it records issue tags for the formula
\* if and only if a sub-measurement of the result failed, and every failed
\* sub-measurement is named by a tag.
C13_TagsIffFailedMeasurement ==
    ret = "result" =>
        /\ issues # <<>> <=> FailedMeasurements(result) # {}
        /\ issues # <<>> => Range(issues) \subseteq issue_map[formula]
        /\ \A m \in FailedMeasurements(result) :
               \E i \in 1..Len(issues) : issues[i][1] = m

C13_Witness ==
    /\ ret = "result"
    /\ result.manna_pnueli_class = FormatIssue
    /\ issues = <<>>
    /\ formula \notin DOMAIN issue_map

\* C14: a formula with exactly one comparison, of kind k, and any number of
\* "-->" tokens yields counts in which k is 1 and the other five kinds are 0.
C14_OneComparisonCountsOnce ==
    (product # NoProduct /\ product.step = "normalized") =>
        \A k \in ComparisonKinds :
            subject.comparisons = {k} =>
                product.counts = [j \in ComparisonKinds |-> IF j = k THEN 1 ELSE 0]

C14_Witness ==
    /\ product # NoProduct
    /\ product.step = "normalized"
    /\ subject.formula = <<"x", "<", "-", "-", ">">>
    /\ subject.comparisons = {"lt"}
    /\ product.counts.lt = 1
    /\ product.counts.gt = 0

RECURSIVE Occurrences(_, _)
Occurrences(node, kind) ==
    LET here == IF node.kind # kind THEN 0
                ELSE IF kind \in NaryKinds THEN Len(node.sub) - 1
                ELSE 1
        RECURSIVE Below(_)
        Below(i) == IF i > Len(node.sub) THEN 0
                    ELSE Occurrences(node.sub[i], kind) + Below(i + 1)
    IN  IF "sub" \in DOMAIN node THEN here + Below(1) ELSE 0

\* C16: after the walker has traversed a tree, every tally equals the
\* reference count over the tree (k - 1 for each And or Or node with k
\* children, 1 for each Imply, Not, X, F, G, U, R, A, E node), and the
\* comparison tally is untouched.
C16_TalliesAreReferenceCounts ==
    (product # NoProduct /\ product.step = "walked" /\ product.raised = "no") =>
        /\ \A k \in LogicalKinds :
               product.self.lops[LopsKey(k)] = Occurrences(subject.node, k)
        /\ \A k \in TemporalKinds :
               product.self.tops[k] = Occurrences(subject.node, k)
        /\ product.self.cops = InitialAttributes(<<>>, NoText).cops

C16_Witness ==
    /\ product # NoProduct
    /\ product.step = "walked"
    /\ product.raised = "no"
    /\ subject.node.kind = "G"
    /\ subject.node.sub[1].kind = "And"
    /\ Len(subject.node.sub[1].sub) = 4
    /\ product.self.lops["and"] = 3
    /\ product.self.tops.G = 1

\* the tree holds a node that is neither a proposition nor has _subformula
RECURSIVE HasUnknownNode(_)
HasUnknownNode(node) ==
    IF node.kind = "AtomicProposition" THEN FALSE
    ELSE IF "sub" \notin DOMAIN node THEN TRUE
    ELSE \E i \in 1..Len(node.sub) : HasUnknownNode(node.sub[i])

\* C17: if the parser rejects the normalized text, or the walker meets a node
\* that is neither a proposition nor has children, the error leaves the Stats
\* constructor: no Stats object is produced and no analyzer is called.
C17_MalformedFormulaRaises ==
    /\ (/\ ctor # "none"
        /\ ctorArgs # NoArgs
        /\ ~Parse(NormalizedFormula(ctorArgs.formula_str)).ok
        /\ ctorArgs.formula_str # EmptyFormula) => ctor = "raised"
    /\ (product # NoProduct /\ product.step = "walked") =>
           HasUnknownNode(subject.node) <=> product.raised = "ValueError"
    /\ ctor = "raised" =>
           /\ stats = NoStats
           /\ Len(null_calls) = logAtStart
           /\ calls = callsAtStart
           /\ pc = "idle"

C17_Witness ==
    /\ ctor = "raised"
    /\ ctorArgs.formula_str = FormulaLeq7
    /\ ctorArgs.extended
    /\ ctorArgs.spot_analyzer = "NullAnalyzer"
    /\ stats = NoStats
    /\ null_calls = <<>>

\* the keys of the stats result that hold the raw formula, the AST height,
\* the three tallies, the four aggregates and the three entropies
ResultKeys == {"formula_raw", "asth", "cops", "tops", "lops", "agg", "entropy"}

\* C18: whenever the Stats constructor returns, for the empty formula too,
\* get_stats holds the raw formula, the AST height, the three tallies, the
\* four aggregates and the three entropies.
C18_StatsResultIsComplete ==
    (ctor = "returned" /\ ctorArgs # NoArgs) =>
        /\ ResultKeys \subseteq DOMAIN get_stats(stats)
        /\ get_stats(stats).formula_raw = ctorArgs.formula_str
        /\ DOMAIN get_stats(stats).agg = {"aps", "cops", "lops", "tops"}
        /\ DOMAIN get_stats(stats).entropy = {"lops", "tops", "lops_tops"}

C18_Witness ==
    /\ ctor = "returned"
    /\ ctorArgs # NoArgs
    /\ ctorArgs.formula_str = EmptyFormula
    /\ get_stats(stats).formula_raw = EmptyFormula
    /\ "agg" \notin DOMAIN get_stats(stats)
    /\ "entropy" \notin DOMAIN get_stats(stats)

\* C19: the proposition count is the size of the proposition set and each of
\* cops, lops, tops is the sum of its tally; for the formula
\* "G((y and u == 9) --> F(not y or i < 3))" the proposition count is 3, the
\* comparison count 2 (eq 1, lt 1), the logical count 4, the temporal count 2
\* and the AST height 5.
C19_AggregatesSumTheTallies ==
    (/\ ctor = "returned"
     /\ ctorArgs # NoArgs
     /\ ctorArgs.formula_str # EmptyFormula) =>
        /\ stats.agg.aps = Cardinality(stats.ap)
        /\ stats.agg.cops = stats.cops.eq + stats.cops.neq + stats.cops.gt
                              + stats.cops.geq + stats.cops.lt + stats.cops.leq
        /\ stats.agg.lops = stats.lops.impl + stats.lops["and"] + stats.lops["or"]
                              + stats.lops["not"]
        /\ stats.agg.tops = stats.tops.A + stats.tops.E + stats.tops.X + stats.tops.F
                              + stats.tops.G + stats.tops.U + stats.tops.R
        /\ ctorArgs.formula_str = FormulaExample =>
              /\ stats.agg = [aps |-> 3, cops |-> 2, lops |-> 4, tops |-> 2]
              /\ stats.cops.eq = 1
              /\ stats.cops.lt = 1
              /\ stats.asth = 5

C19_Witness ==
    /\ ctor = "returned"
    /\ ctorArgs.formula_str = FormulaExample
    /\ stats.agg.aps = 3
    /\ stats.ap = {<<"y">>, <<"u", "_", "e", "q", "_", "n", "9">>,
                   <<"i", "_", "l", "t", "_", "n", "3">>}
    /\ stats.asth = 5

\* C20: in the entropy result, "tops" is the entropy of the temporal tally
\* values, "lops" the entropy of the logical tally values, and "lops_tops"
\* the entropy of all eleven values of the two tallies.
C20_EntropyLabelsNameTheirTally ==
    (/\ ctor = "returned"
     /\ ctorArgs # NoArgs
     /\ ctorArgs.formula_str # EmptyFormula) =>
        /\ stats.entropy.tops = entropy(TopsValues(stats.tops))
        /\ stats.entropy.lops = entropy(LopsValues(stats.lops))
        /\ Len(stats.entropy.lops_tops.entropy_of) = 11
        /\ stats.entropy.lops_tops =
              entropy(TopsValues(stats.tops) \o LopsValues(stats.lops))

C20_Witness ==
    /\ ctor = "returned"
    /\ ctorArgs.formula_str = FormulaExample
    /\ stats.entropy.tops = entropy(<<1, 1, 1, 1>>)
    /\ stats.entropy.lops = entropy(<<0, 0, 0, 1, 1, 0, 0>>)
    /\ stats.entropy.lops_tops = entropy(<<0, 0, 0, 1, 1, 0, 0, 1, 1, 1, 1>>)


\* ---------------------------------------------------------------- C21
\* the entries of an entropy result that were computed from a tally whose
\* counts are all zero
ZeroTallies(entropies) ==
    {label \in DOMAIN entropies :
        \A n \in DOMAIN entropies[label].entropy_of :
            entropies[label].entropy_of[n] = 0}

\* C21: for a tally whose counts are all zero (the logical tally of a formula
\* with no logical operator, say), the entropy computed for that tally is 0.
C21_ZeroTallyHasZeroEntropy ==
    (/\ ctor = "returned"
     /\ ctorArgs # NoArgs
     /\ ctorArgs.formula_str # EmptyFormula) =>
        \A label \in ZeroTallies(stats.entropy) :
            stats.entropy[label].value = "0.0"

C21_Witness ==
    /\ ctor = "returned"
    /\ ctorArgs.formula_str = FormulaGxLeq7
    /\ stats.lops = [impl |-> 0, and |-> 0, or |-> 0, not |-> 0]
    /\ stats.tops.G = 1
    /\ ZeroTallies(stats.entropy) # {}


\* ---------------------------------------------------------------- C22
\* what the formulas of the model are in Spot's syntax: "not p" is "!p", the
\* others hold no textual connective and stay as they are
InSpotSyntax(f) == IF f = FormulaNotP THEN <<"!", "p">> ELSE f

\* the formula text a tool command carries after -f (autfilt reads an
\* automaton and carries none)
SubmittedFormula(command) ==
    SubSeq(command, 3, 2 + Len(InSpotSyntax(formula)))

\* C22: in every result classify returns, "formula" is the raw formula that
\* was passed and "spot_formula" is the translated string that was submitted
\* to the tools; every ltlfilt and ltl2tgba command of the call carries that
\* translated string.
C22_ResultNamesRawAndSubmittedFormula ==
    /\ (last # NoInvocation /\ last.command[1] # "autfilt") =>
          /\ last.command[2] = "-f"
          /\ SubmittedFormula(last.command) = InSpotSyntax(formula)
    /\ (ret = "result" /\ pc = "idle") =>
          /\ result.formula = formula
          /\ result.spot_formula = InSpotSyntax(formula)

C22_Witness ==
    /\ ret = "result"
    /\ pc = "idle"
    /\ result.formula = <<"n", "o", "t", " ", "p">>
    /\ result.spot_formula = <<"!", "p">>
    /\ last.command = <<"ltl2tgba", "-f", "!", "p", "-D", "--stats=%s %t %p %d %a">>


\* ---------------------------------------------------------------- C23
\* the step enters classify on the SpotAnalyzer, from a direct caller or from
\* a Stats constructor
ClassifyStarts == ops' = ops + 1 /\ calls' = callsAtStart' + 1

\* evaluations of spot_status made on the instance that classify is entered
\* on, and its memo, before the call: none on an instance the constructor of
\* Stats has just made
ChecksBefore == IF NewInstance THEN NewAnalyzer.statusChecks ELSE statusChecks

MemoBefore == IF NewInstance THEN NewAnalyzer.available ELSE available

\* C23: on one SpotAnalyzer instance spot_status is evaluated at most once.
\* The constructor does not evaluate it; the first classify call with a
\* non-empty formula does; every later call reuses the remembered outcome and
\* a call with the empty formula never evaluates it.
C23_StatusEvaluatedAtMostOnce ==
    /\ statusChecks = 0
    /\ [][/\ statusChecks' <= 1
          /\ ~ClassifyStarts => statusChecks' = statusChecks
          /\ (ClassifyStarts /\ formula' = EmptyFormula) =>
                statusChecks' = ChecksBefore
          /\ (ClassifyStarts /\ formula' # EmptyFormula /\ ChecksBefore = 0) =>
                /\ MemoBefore = "None"
                /\ statusChecks' = 1
                /\ checkedAt' = calls'
          /\ (ClassifyStarts /\ formula' # EmptyFormula /\ ChecksBefore = 1) =>
                /\ statusChecks' = 1
                /\ checkedAt' = checkedAt
                /\ missingAtCheck' = missingAtCheck
                /\ available' = MemoBefore
                /\ MemoBefore = "True" => pc' = "safety"
                /\ MemoBefore = "False" => (pc' = "idle" /\ ret' = "None")]_vars

C23_Witness ==
    /\ calls = 2
    /\ statusChecks = 1
    /\ checkedAt = 1
    /\ formula # EmptyFormula
    /\ backendCalls = 2
    /\ pc = "safety"


\* ---------------------------------------------------------------- C24
\* the occurrences of the character c in s that have no "=", "<" or ">"
\* immediately before or after them
Isolated(s, c) ==
    Cardinality({i \in 1..Len(s) :
        /\ s[i] = c
        /\ ~(i > 1 /\ s[i - 1] \in OperatorChars)
        /\ ~(i < Len(s) /\ s[i + 1] \in OperatorChars)})

\* C24: a "<" immediately preceded or followed by "=", "<" or ">" is never
\* counted as lt, and a ">" so placed is never counted as gt: "<=", ">=" and
\* "<>" add nothing to lt or gt (the ">" of "-->" is no comparison character).
C24_AdjacentOperatorsNotCounted ==
    (product # NoProduct /\ product.step = "normalized") =>
        LET counted == SubLiteral(subject.formula, ImpliesToken, ImpliesPlaceholder, 1)
        IN  /\ product.counts.lt <= Isolated(counted, "<")
            /\ product.counts.gt <= Isolated(counted, ">")

C24_Witness ==
    /\ product # NoProduct
    /\ product.step = "normalized"
    /\ subject.formula = <<"<", ">">>
    /\ product.counts.lt = 1
    /\ product.counts.gt = 1
    /\ Isolated(subject.formula, "<") = 0


\* ---------------------------------------------------------------- C25
\* the nodes the walk visits below the root of a tree, each with its depth
RECURSIVE Visited(_, _)
Visited(node, level) ==
    IF "sub" \notin DOMAIN node THEN {}
    ELSE UNION {{<<node.sub[i], level + 1>>} \cup Visited(node.sub[i], level + 1) :
                   i \in 1..Len(node.sub)}

\* C25: the walk assigns the AST height once, at depth 0, and it is the
\* height of the root; visiting a node at depth > 0 leaves it unchanged.
C25_HeightIsRootHeight ==
    (product # NoProduct /\ product.step = "walked") =>
        /\ product.self.asth = Height(subject.node)
        /\ \A visit \in Visited(subject.node, 0) :
              /\ visit[2] > 0
              /\ analyze_formula(product, visit[1], visit[2]).self.asth
                    = product.self.asth

C25_Witness ==
    /\ product # NoProduct
    /\ product.step = "walked"
    /\ product.raised = "no"
    /\ subject.node.kind = "G"
    /\ product.self.asth = 2
    /\ <<AtomicProposition(<<"p">>), 2>> \in Visited(subject.node, 0)


\* ---------------------------------------------------------------- C26
\* the three tallies of a Stats object have their fixed keys and hold
\* non-negative integers
TalliesWellFormed(self) ==
    /\ DOMAIN self.cops = {"eq", "neq", "gt", "geq", "lt", "leq"}
    /\ DOMAIN self.lops = {"impl", "and", "or", "not"}
    /\ DOMAIN self.tops = {"A", "E", "X", "F", "G", "U", "R"}
    /\ \A k \in DOMAIN self.cops : self.cops[k] \in Nat
    /\ \A k \in DOMAIN self.lops : self.lops[k] \in Nat
    /\ \A k \in DOMAIN self.tops : self.tops[k] \in Nat

\* no tally of after is below that of before
TalliesNotBelow(after, before) ==
    /\ \A k \in DOMAIN before.cops : after.cops[k] >= before.cops[k]
    /\ \A k \in DOMAIN before.lops : after.lops[k] >= before.lops[k]
    /\ \A k \in DOMAIN before.tops : after.tops[k] >= before.tops[k]

\* C26: after any Stats construction and at every step of the walk, the key
\* sets of cops, lops and tops are {eq, neq, gt, geq, lt, leq}, {impl, and,
\* or, not} and {A, E, X, F, G, U, R}, and every value is a non-negative
\* integer: the walk of the nodes below any node keeps the keys and lowers no
\* value.
C26_TalliesKeepKeysAndSign ==
    /\ ctor = "returned" => TalliesWellFormed(stats)
    /\ (product # NoProduct /\ product.step = "walked") =>
          /\ TalliesWellFormed(product.self)
          /\ \A visit \in Visited(subject.node, 0) \cup {<<subject.node, 0>>} :
                LET step == analyze_formula(product, visit[1], visit[2]).self
                IN  /\ TalliesWellFormed(step)
                    /\ TalliesNotBelow(step, product.self)

C26_Witness ==
    /\ product # NoProduct
    /\ product.step = "walked"
    /\ subject.node.kind = "And"
    /\ Len(subject.node.sub) = 4
    /\ product.self.lops["and"] = 3
    /\ TalliesWellFormed(product.self)


\* ---------------------------------------------------------------- C27
\* the words of a text: its maximal runs of letters, digits and "_", in
\* lower case, in the order they stand
RECURSIVE WordsOf(_)
WordsOf(s) ==
    IF s = <<>> THEN <<>>
    ELSE IF ~IsWordChar(s[1]) THEN WordsOf(Tail(s))
    ELSE LET end == SkipWhile(s, 1, {c \in Range(s) : IsWordChar(c)})
         IN  <<LowerSlice(s, 1, end - 1)>> \o WordsOf(SubSeq(s, end, Len(s)))

TextualWords == {<<"n", "o", "t">>, <<"a", "n", "d">>, <<"o", "r">>}

\* the words of a text that are no connective: its identifiers
IdentifiersOf(s) == SelectSeq(WordsOf(s), LAMBDA w : w \notin TextualWords)

\* how often the word stands in the text as a whole word
WholeWords(s, word) == Len(SelectSeq(WordsOf(s), LAMBDA w : w = word))

\* how often the character stands in the text
CharCount(s, c) == Cardinality({i \in 1..Len(s) : s[i] = c})

\* the places where the literal text pat starts in s
Places(s, pat) == {i \in 1..Len(s) : Slice(s, i, Len(pat)) = pat}

\* the connectives are rewritten where they stand as whole words and nowhere
\* else: the identifiers stay as they are, no textual connective is left, and
\* each symbol occurs once more for every whole-word connective
WholeWordRewriting(text, translated) ==
    /\ IdentifiersOf(translated) = IdentifiersOf(text)
    /\ \A word \in TextualWords : WholeWords(translated, word) = 0
    /\ Places(translated, ImpliesToken) = {}
    /\ CharCount(translated, "!") = CharCount(text, "!") + WholeWords(text, <<"n", "o", "t">>)
    /\ CharCount(translated, "&") = CharCount(text, "&") + WholeWords(text, <<"a", "n", "d">>)
    /\ CharCount(translated, "|") = CharCount(text, "|") + WholeWords(text, <<"o", "r">>)

\* the text is written with the symbolic operators and single spaces: no
\* textual connective, no white space but single blanks inside the text, and
\* one blank on each side of every &, | and ->
SymbolicSingleSpaced(s) ==
    /\ \A word \in TextualWords : WholeWords(s, word) = 0
    /\ Places(s, ImpliesToken) = {}
    /\ \A i \in 1..Len(s) :
          IsSpace(s[i]) => /\ s[i] = " "
                           /\ 1 < i /\ i < Len(s)
                           /\ ~IsSpace(s[i + 1])
    /\ \A op \in {<<"&">>, <<"|">>, <<"-", ">">>} : \A i \in Places(s, op) :
          /\ 1 < i /\ s[i - 1] = " "
          /\ i + Len(op) <= Len(s) /\ s[i + Len(op)] = " "

\* no blank follows a "!"
NegationsTight(s) == \A i \in Places(s, <<"!", " ">>) : FALSE

\* C27 as stated: _to_spot_syntax rewrites "-->", "not", "and", "or" only
\* where they stand as whole words, an identifier that contains one of the
\* words (android) appears unchanged, and a formula already written with the
\* symbolic operators and single spaces is returned unchanged.
C27_SymbolicFormulaUnchanged ==
    (product # NoProduct /\ product.step = "translated") =>
        /\ WholeWordRewriting(subject.formula, product.translated)
        /\ SymbolicSingleSpaced(subject.formula) =>
              product.translated = subject.formula

\* C27, amended: as stated, for the formulas in which no blank follows a "!"
\* (the translation removes the white space after a negation).
C27_SymbolicTightFormulaUnchanged ==
    (product # NoProduct /\ product.step = "translated") =>
        /\ WholeWordRewriting(subject.formula, product.translated)
        /\ (SymbolicSingleSpaced(subject.formula) /\ NegationsTight(subject.formula)) =>
              product.translated = subject.formula

C27_Witness ==
    /\ product # NoProduct
    /\ product.step = "translated"
    /\ subject.formula = <<"a", "n", "d", "r", "o", "i", "d", " ", "&", " ", "p">>
    /\ product.translated = subject.formula
    /\ SymbolicSingleSpaced(subject.formula)
    /\ NegationsTight(subject.formula)


\* ---------------------------------------------------------------- C28
\* the ltl2tgba runs of the classification so far: for each variant the run
\* that asks for the automaton and the run that asks for its statistics
TranslatorRuns ==
    LET Runs(v) == (IF history[v].translator # "none" THEN 1 ELSE 0)
                   + (IF history[v].stats # "none" THEN 1 ELSE 0)
    IN  Runs("tgba") + Runs("buchi") + Runs("det")

\* the variants are asked for in the order tgba, buchi, det, and a tool is
\* only started when the run before it has ended: the statistics run of a
\* variant follows the automaton run that returned, with its output in hand
InVariantOrder ==
    /\ history["buchi"].translator # "none" => history["tgba"].translator # "none"
    /\ history["det"].translator # "none" => history["buchi"].translator # "none"
    /\ \A v \in Variants :
          history[v].stats # "none" => history[v].translator \in {"produced", "empty"}
    /\ pc = "translate" =>
          /\ history[variant].translator = "none"
          /\ variant # "tgba" => last.command[1] \in {"ltl2tgba", "autfilt"}
    /\ pc = "stats" =>
          /\ last.command = FormulaCmd("ltl2tgba", SpotSyntax[formula], VariantFlags(variant))
          /\ history[variant].translator \in {"produced", "empty"}
          /\ history[variant].stats = "none"
          /\ hoa = invoke(last.command, last.outcome).value

\* C28 as stated: a classification that returns a result has run the
\* translator exactly three times, once per variant, in the order tgba, buchi,
\* det, each tool run ending before the next starts.
C28_ThreeTranslatorRuns ==
    /\ InVariantOrder
    /\ (ret = "result" /\ pc = "idle") => TranslatorRuns = 3

\* C28, amended: a classification that returns a result has asked the
\* translator for the automaton of each variant exactly once, in the order
\* tgba, buchi, det, and has run it a second time for the statistics of each
\* variant whose automaton run returned: three to six runs, each ending
\* before the next starts.
C28_TranslatorRunsPerVariant ==
    /\ InVariantOrder
    /\ (ret = "result" /\ pc = "idle") =>
          /\ \A v \in Variants :
                /\ history[v].translator # "none"
                /\ history[v].stats # "none"
                      <=> history[v].translator \in {"produced", "empty"}
          /\ TranslatorRuns \in 3..6

C28_Witness ==
    /\ ret = "result"
    /\ pc = "idle"
    /\ TranslatorRuns = 6
    /\ \A v \in Variants : history[v].translator = "produced" /\ history[v].stats = "ok"


\* ---------------------------------------------------------------- C29
\* C29: normalization keeps distinct propositions distinct: the proposition
\* count of a formula "p and q" is the number of distinct propositions among
\* p and q, whether identifiers or comparisons.
C29_DistinctPropositionsStayDistinct ==
    (product # NoProduct /\ product.step = "analysed") =>
        /\ product.raised = "no"
        /\ Cardinality(product.self.ap) = Cardinality(subject.propositions)
        /\ product.self.agg.aps = Cardinality(subject.propositions)

C29_Witness ==
    /\ product # NoProduct
    /\ product.step = "analysed"
    /\ subject.propositions = {<<"x", "<", "-", "1">>, <<"x", "<", "n", "1">>}
    /\ product.self.ap = {<<"x", "_", "l", "t", "_", "n", "n", "1">>}
    /\ product.self.agg.aps = 1


\* ---------------------------------------------------------------- C30
\* the step ends a classification because a tool could not be started for a
\* reason other than not being found (Popen raised another OSError)
BackendFails ==
    /\ pc # "idle"
    /\ pc' = "idle"
    /\ last'.outcome.kind = "oserror"

\* the warnings of diags that name the formula f
WarningsNaming(diags, f) ==
    {i \in 1..Len(diags) :
        /\ diags[i][1] = "[tlparser] Spot classification failed for"
        /\ SubSeq(diags[i], 2, 1 + Len(f)) = f}

\* the call before this one, on this instance, ended that way
FailedBefore ==
    /\ pc = "idle"
    /\ ret = "None"
    /\ last.outcome.kind = "oserror"

\* C30: when the backend raises an error other than tool-not-found, the
\* classify call returns no result, one warning naming the formula and the
\* error is in the diagnostics (once: the call adds it unless an equal one is
\* there), no issue tag is recorded, and the analyzer stays available:
\* the next classify call on the instance enters the backend again.
C30_BackendErrorKeepsAnalyzer ==
    [][/\ BackendFails =>
             /\ ret' = "None"
             /\ result' = <<>>
             /\ issues' = <<>>
             /\ issue_map' = issue_map
             /\ available' = "True"
             /\ \E i \in WarningsNaming(diagnostics', formula) :
                   /\ diagnostics' = record_warning(diagnostics, diagnostics'[i])
                   /\ Cardinality({j \in DOMAIN diagnostics' :
                                      diagnostics'[j] = diagnostics'[i]}) = 1
       /\ (FailedBefore /\ ClassifyStarts /\ ~NewInstance /\ formula' # EmptyFormula) =>
             /\ backendCalls' = backendCalls + 1
             /\ pc' = "safety"
             /\ statusChecks' = statusChecks]_vars

C30_Witness ==
    /\ calls = 2
    /\ backendCalls = 2
    /\ pc = "safety"
    /\ available = "True"
    /\ issue_map = <<>>
    /\ Len(diagnostics) = 1
    /\ WarningsNaming(diagnostics, FormulaNotP) = {1}

=============================================================================
